---- MODULE Spec2Model ----
(***************************************************************************)
(* Model of the expense tracker's record store and analytics layer:        *)
(* services/expense-data.ts (in-memory store), services/income-data.ts and *)
(* services/analytics-data.ts.                                             *)
(*                                                                         *)
(* JavaScript strings are sequences of UTF-16 code units (naturals), so    *)
(* that comparison, toLowerCase, includes and substring are computed, not  *)
(* assumed.  Amounts are integers (doubles are exact on them); a quotient  *)
(* is an exact fraction <<numerator, denominator>> in lowest terms.        *)
(* A JavaScript object used as a dictionary is the sequence of its         *)
(* <<key, value>> pairs in insertion order.  An optional value is <<>>     *)
(* (undefined) or <<v>>.                                                   *)
(***************************************************************************)
EXTENDS Integers, Sequences, FiniteSets, TLC

VARIABLES expenses, incomeData, now, call, result, expensesFile, usersFile

\* the two CSV files of the API routes
files == <<expensesFile, usersFile>>

vars == <<expenses, incomeData, now, call, result, expensesFile, usersFile>>

(***************************************************************************)
(* Bounds of the model.                                                    *)
(***************************************************************************)
MaxExpenses == 2
MaxIncome == 2
MaxClock == 2
\* the expenses of the store in which one month holds more than three categories
MaxMonthExpenses == 4

(***************************************************************************)
(* Optional values.                                                        *)
(***************************************************************************)
Undefined == <<>>

Some(v) == <<v>>

IsDefined(o) == o # Undefined

Val(o) == o[1]

\* What a caller can hand over where a number is expected: a number n is Some(n); null
\* and NaN are told from it by their length.  ToNumber(null) is 0, and every
\* comparison with NaN is false.
JsNull == <<0, 0>>

NaN == <<0, 0, 0>>

IsNaN(o) == Len(o) = 3

\* undefined read where a string is expected (a property the object does not have):
\* no string, as no code unit is negative
Missing == <<-1>>

(***************************************************************************)
(* Strings.                                                                *)
(***************************************************************************)
Hyphen == 45

Digit(n) == 48 + n

IsDigit(c) == c >= 48 /\ c <= 57

\* String(n) for a natural number n
RECURSIVE NumToStr(_)
NumToStr(n) == IF n < 10 THEN <<Digit(n)>> ELSE NumToStr(n \div 10) \o <<Digit(n % 10)>>

\* the digits of s read as a decimal number
RECURSIVE ParseDigits(_)
ParseDigits(s) ==
  IF s = <<>> THEN 0 ELSE 10 * ParseDigits(SubSeq(s, 1, Len(s) - 1)) + (s[Len(s)] - 48)

\* a date "YYYY-MM-DD" as the forms and the mock data write it
IsoDate(y, m, d) ==
  <<Digit(y \div 1000), Digit((y \div 100) % 10), Digit((y \div 10) % 10), Digit(y % 10),
    Hyphen, Digit(m \div 10), Digit(m % 10), Hyphen, Digit(d \div 10), Digit(d % 10)>>

\* a < b for JavaScript strings: code unit by code unit, a proper prefix is smaller
RECURSIVE StrLt(_, _)
StrLt(a, b) ==
  IF b = <<>> THEN FALSE
  ELSE IF a = <<>> THEN TRUE
  ELSE IF a[1] # b[1] THEN a[1] < b[1]
  ELSE StrLt(Tail(a), Tail(b))

StrLe(a, b) == a = b \/ StrLt(a, b)

\* a mutant of StrGe: the bound itself is not included
StrGeExclusive(a, b) == StrLt(b, a)

StrGe(a, b) == StrLe(b, a)

\* String.prototype.localeCompare on strings of digits and hyphens: -1, 0 or 1
LocaleCompare(a, b) == IF a = b THEN 0 ELSE IF StrLt(a, b) THEN -1 ELSE 1

LowerChar(c) == IF c >= 65 /\ c <= 90 THEN c + 32 ELSE c

ToLowerCase(s) == [i \in 1..Len(s) |-> LowerChar(s[i])]

\* String.prototype.includes
Includes(s, q) ==
  \E i \in 1..(Len(s) - Len(q) + 1) : SubSeq(s, i, i + Len(q) - 1) = q

\* String.prototype.substring(from, to) with 0 <= from <= to
Substring(s, from, to) ==
  SubSeq(s, from + 1, IF to > Len(s) THEN Len(s) ELSE to)

\* new Date("YYYY-MM-DD").getTime() of a calendar date, counted in days since the
\* epoch (the milliseconds are this times 86400000, beyond the checker's integers)
DateGetTime(s) ==
  LET y  == ParseDigits(SubSeq(s, 1, 4))
      m  == ParseDigits(SubSeq(s, 6, 7))
      d  == ParseDigits(SubSeq(s, 9, 10))
      yy == IF m <= 2 THEN y - 1 ELSE y
      era == yy \div 400
      yoe == yy - era * 400
      mp  == (m + 9) % 12
      doy == (153 * mp + 2) \div 5 + d - 1
      doe == yoe * 365 + yoe \div 4 - yoe \div 100 + doy
  IN  era * 146097 + doe - 719468

(***************************************************************************)
(* Numbers: quotients as exact fractions.                                  *)
(***************************************************************************)
Abs(n) == IF n < 0 THEN -n ELSE n

RECURSIVE Gcd(_, _)
Gcd(a, b) == IF b = 0 THEN a ELSE Gcd(b, a % b)

\* n / d for d # 0, in lowest terms with a positive denominator
Frac(n, d) ==
  LET g == Gcd(Abs(n), Abs(d))
      s == IF d < 0 THEN -1 ELSE 1
  IN  <<(s * n) \div g, Abs(d) \div g>>

Zero == Frac(0, 1)

FracTimes(q, k) == Frac(q[1] * k, q[2])

FracPlus(p, q) == Frac(p[1] * q[2] + q[1] * p[2], p[2] * q[2])

(***************************************************************************)
(* Arrays, and the comparator functions the services sort them with.       *)
(***************************************************************************)
\* the order of two integer keys
ByIndex(a, b) == ParseDigits(a[1]) - ParseDigits(b[1])

\* a mutant of ByDateDescending: the operands swapped
ByDateAscending(a, b) == DateGetTime(a.date) - DateGetTime(b.date)

\* a mutant of ByDateDescending: a comparator that never answers 0
ByDateDescendingNeverEqual(a, b) ==
  IF DateGetTime(a.date) > DateGetTime(b.date) THEN -1 ELSE 1

\* (a, b) => new Date(b.date).getTime() - new Date(a.date).getTime()
ByDateDescending(a, b) == DateGetTime(b.date) - DateGetTime(a.date)

\* a mutant of ByAmountDescending: the operands swapped
ByAmountAscending(a, b) == a.amount - b.amount

\* (a, b) => b.amount - a.amount
ByAmountDescending(a, b) == b.amount - a.amount

\* a mutant of ByDateAscendingKey: the operands swapped
ByDateDescendingKey(a, b) == LocaleCompare(b.date, a.date)

\* (a, b) => a.date.localeCompare(b.date)
ByDateAscendingKey(a, b) == LocaleCompare(a.date, b.date)

\* a mutant of ByMonthDescending: the operands swapped
ByMonthAscending(a, b) == LocaleCompare(a.month, b.month)

\* (a, b) => b.month.localeCompare(a.month)
ByMonthDescending(a, b) == LocaleCompare(b.month, a.month)

\* (a, b) => a.day - b.day
ByDayAscending(a, b) == a.day - b.day

\* the comparator function a sort is given, applied to two elements
Compare(cmp, a, b) ==
  CASE cmp = "ByIndex" -> ByIndex(a, b)
    [] cmp = "ByDateDescending" -> ByDateDescending(a, b)
    [] cmp = "ByAmountDescending" -> ByAmountDescending(a, b)
    [] cmp = "ByDateAscendingKey" -> ByDateAscendingKey(a, b)
    [] cmp = "ByMonthDescending" -> ByMonthDescending(a, b)
    [] cmp = "ByDayAscending" -> ByDayAscending(a, b)

\* Array.prototype.sort(cmp) for a comparator that is a consistent ordering: stable,
\* so an element comes behind those cmp puts before it and behind the earlier
\* elements cmp takes as equal to it.  cmp names the comparator function passed.
ArraySort(cmp, arr) ==
  LET Insert(sorted, x) ==
        LET fits == {i \in 1..Len(sorted) : Compare(cmp, sorted[i], x) <= 0}
            p    == IF fits = {} THEN 0 ELSE CHOOSE i \in fits : \A j \in fits : j <= i
        IN  SubSeq(sorted, 1, p) \o <<x>> \o SubSeq(sorted, p + 1, Len(sorted))
      placed[n \in 0..Len(arr)] == IF n = 0 THEN <<>> ELSE Insert(placed[n - 1], arr[n])
  IN  placed[Len(arr)]

\* Array.prototype.slice(start, end): a negative index counts from the end
ArraySlice(arr, start, end) ==
  LET n    == Len(arr)
      Rel(k) == IF k < 0 THEN (IF n + k < 0 THEN 0 ELSE n + k) ELSE (IF k > n THEN n ELSE k)
  IN  SubSeq(arr, Rel(start) + 1, Rel(end))

\* arr.findIndex(e => e.id === id), 1-based; 0 when nothing matches (-1 in the source)
FindIndex(arr, id) ==
  IF \E i \in 1..Len(arr) : arr[i].id = id
  THEN CHOOSE i \in 1..Len(arr) : arr[i].id = id /\ \A j \in 1..(i - 1) : arr[j].id # id
  ELSE 0

RECURSIVE SumSeq(_)
SumSeq(s) == IF s = <<>> THEN 0 ELSE SumSeq(SubSeq(s, 1, Len(s) - 1)) + s[Len(s)]

(***************************************************************************)
(* Objects used as dictionaries: <<key, value>> pairs in insertion order.  *)
(***************************************************************************)
HasKey(obj, k) == \E i \in 1..Len(obj) : obj[i][1] = k

\* obj[k], read only where the key is present
ObjGet(obj, k) == obj[CHOOSE i \in 1..Len(obj) : obj[i][1] = k][2]

\* obj[k] = v
ObjSet(obj, k, v) ==
  IF HasKey(obj, k)
  THEN [i \in 1..Len(obj) |-> IF obj[i][1] = k THEN <<k, v>> ELSE obj[i]]
  ELSE Append(obj, <<k, v>>)

\* a key that is a canonical array index ("0", "7", "42") is listed before the others
IsArrayIndex(k) ==
  /\ k # <<>>
  /\ Len(k) <= 9
  /\ \A i \in 1..Len(k) : IsDigit(k[i])
  /\ (Len(k) > 1 => k[1] # 48)

\* Object.entries(obj): integer keys ascending, then the others in insertion order
ObjectEntries(obj) ==
  ArraySort("ByIndex", SelectSeq(obj, LAMBDA e : IsArrayIndex(e[1])))
    \o SelectSeq(obj, LAMBDA e : ~IsArrayIndex(e[1]))

(***************************************************************************)
(* Values the callers pass in: categories, sources, descriptions, dates    *)
(* and amounts.  A negative amount is a value addExpense and addIncome     *)
(* accept (they validate nothing).                                         *)
(***************************************************************************)
Rent == <<82, 101, 110, 116>>

Dining == <<68, 105, 110, 105, 110, 103>>

Salary == <<83, 97, 108, 97, 114, 121>>

Freelance == <<70, 114, 101, 101, 108, 97, 110, 99, 101>>

\* descriptions "Flat", "Lunch", "Pay"
DescFlat == <<70, 108, 97, 116>>

DescLunch == <<76, 117, 110, 99, 104>>

DescPay == <<80, 97, 121>>

\* filter texts "rent", "lunch", "salary", "IN"
QueryRent == <<114, 101, 110, 116>>

QueryLunch == <<108, 117, 110, 99, 104>>

QuerySalary == <<115, 97, 108, 97, 114, 121>>

QueryIn == <<73, 78>>

Dec10 == IsoDate(2025, 12, 10)

Jan01 == IsoDate(2026, 1, 1)

Jan15 == IsoDate(2026, 1, 15)

Feb01 == IsoDate(2026, 2, 1)

Feb02 == IsoDate(2026, 2, 2)

\* the arguments of addExpense: Omit<Expense, "id" | "type">
ExpenseInputs ==
  {[amount |-> 100, date |-> Feb01, category |-> Rent, description |-> DescFlat],
   [amount |-> 50, date |-> Feb01, category |-> Dining, description |-> DescLunch],
   [amount |-> 50, date |-> Feb02, category |-> Rent, description |-> DescFlat],
   [amount |-> -50, date |-> Feb01, category |-> Dining, description |-> DescLunch],
   [amount |-> 100, date |-> Dec10, category |-> Dining, description |-> DescLunch],
   [amount |-> 50, date |-> Dec10, category |-> Rent, description |-> DescFlat]}

\* the arguments of addIncome: Omit<Income, "id">
IncomeInputs ==
  {[amount |-> 100, date |-> Jan15, source |-> Salary, description |-> DescPay],
   [amount |-> 100, date |-> Feb01, source |-> Freelance, description |-> DescPay],
   [amount |-> -100, date |-> Feb01, source |-> Salary, description |-> DescPay]}

\* the ids Date.now() can have produced
Ids == {NumToStr(t) : t \in 1..MaxClock}

\* Partial<Omit<Expense, "id" | "type">>: the fields an update carries
NoUpdate == [amount |-> Undefined, date |-> Undefined]

ExpenseUpdates ==
  {[NoUpdate EXCEPT !.amount = Some(100)], [NoUpdate EXCEPT !.date = Some(Feb02)]}

IncomeUpdates ==
  {[NoUpdate EXCEPT !.amount = Some(100)], [NoUpdate EXCEPT !.date = Some(Feb01)]}

\* the id arrays deleteExpenses is called with
IdLists == {<<NumToStr(1)>>, <<NumToStr(1), NumToStr(2)>>}

(***************************************************************************)
(* Filters: ExpenseFilter and IncomeFilter, and their intersection type    *)
(* that getSpendingTrends passes to both.  A field the object does not     *)
(* carry is Undefined.                                                     *)
(***************************************************************************)
EmptyFilter ==
  [startDate |-> Undefined, endDate |-> Undefined, category |-> Undefined,
   source |-> Undefined, minAmount |-> Undefined, maxAmount |-> Undefined,
   searchQuery |-> Undefined]

ExpenseFilters ==
  {Undefined, Some(EmptyFilter),
   Some([EmptyFilter EXCEPT !.startDate = Some(Feb01)]),
   Some([EmptyFilter EXCEPT !.endDate = Some(Feb01)]),
   Some([EmptyFilter EXCEPT !.category = Some(QueryRent)]),
   Some([EmptyFilter EXCEPT !.minAmount = Some(0)]),
   Some([EmptyFilter EXCEPT !.minAmount = Some(50), !.maxAmount = Some(50)]),
   Some([EmptyFilter EXCEPT !.searchQuery = Some(QueryLunch)]),
   Some([EmptyFilter EXCEPT !.startDate = Some(Jan01), !.endDate = Some(Feb01),
                            !.maxAmount = Some(50), !.searchQuery = Some(QueryIn)])}

IncomeFilters ==
  {Undefined, Some(EmptyFilter),
   Some([EmptyFilter EXCEPT !.startDate = Some(Feb01)]),
   Some([EmptyFilter EXCEPT !.endDate = Some(Jan15)]),
   Some([EmptyFilter EXCEPT !.source = Some(QuerySalary)]),
   Some([EmptyFilter EXCEPT !.minAmount = Some(0)]),
   Some([EmptyFilter EXCEPT !.startDate = Some(Jan01), !.source = Some(QuerySalary),
                            !.minAmount = Some(100), !.maxAmount = Some(100)])}

\* if (filter.startDate): a string field counts when it is there and not empty
Truthy(o) == IsDefined(o) /\ Val(o) # <<>>

(***************************************************************************)
(* services/expense-data.ts (in-memory store)                              *)
(***************************************************************************)
\* if (filter.startDate) filtered = filtered.filter(r => r.date >= filter.startDate)
KeepFromStartDate(records, f) ==
  IF Truthy(f.startDate)
  THEN SelectSeq(records, LAMBDA r : StrGe(r.date, Val(f.startDate)))
  ELSE records

\* if (filter.endDate) filtered = filtered.filter(r => r.date <= filter.endDate)
KeepToEndDate(records, f) ==
  IF Truthy(f.endDate)
  THEN SelectSeq(records, LAMBDA r : StrLe(r.date, Val(f.endDate)))
  ELSE records

\* a mutant of KeepCategory: the category is searched for the value
KeepCategoryContaining(records, f) ==
  IF Truthy(f.category)
  THEN SelectSeq(records, LAMBDA e :
         Includes(ToLowerCase(e.category), ToLowerCase(Val(f.category))))
  ELSE records

\* if (filter.category) ... e.category.toLowerCase() === filter.category.toLowerCase()
KeepCategory(records, f) ==
  IF Truthy(f.category)
  THEN SelectSeq(records, LAMBDA e : ToLowerCase(e.category) = ToLowerCase(Val(f.category)))
  ELSE records

\* if (filter.minAmount !== undefined) ... r.amount >= filter.minAmount
KeepFromMinAmount(records, f) ==
  IF IsDefined(f.minAmount)
  THEN SelectSeq(records, LAMBDA r : ~IsNaN(f.minAmount) /\ r.amount >= Val(f.minAmount))
  ELSE records

\* if (filter.maxAmount !== undefined) ... r.amount <= filter.maxAmount
KeepToMaxAmount(records, f) ==
  IF IsDefined(f.maxAmount)
  THEN SelectSeq(records, LAMBDA r : ~IsNaN(f.maxAmount) /\ r.amount <= Val(f.maxAmount))
  ELSE records

\* if (filter.searchQuery) ... description or category includes the lowered query
KeepSearchQuery(records, f) ==
  IF Truthy(f.searchQuery)
  THEN SelectSeq(records, LAMBDA e :
         \/ Includes(ToLowerCase(e.description), ToLowerCase(Val(f.searchQuery)))
         \/ Includes(ToLowerCase(e.category), ToLowerCase(Val(f.searchQuery))))
  ELSE records

\* the filter chain of getExpenses up to its searchQuery step
BeforeSearch(records, f) ==
  KeepToMaxAmount(
    KeepFromMinAmount(
      KeepCategory(
        KeepToEndDate(
          KeepFromStartDate(records, f),
          f),
        f),
      f),
    f)

\* the filter chain of getExpenses over a copy of the records
FilterExpenses(records, filter) ==
  IF IsDefined(filter)
  THEN KeepSearchQuery(BeforeSearch(records, Val(filter)), Val(filter))
  ELSE records

getExpenses(filter) == ArraySort("ByDateDescending", FilterExpenses(expenses, filter))

\* e.description.toLowerCase() of the searchQuery step throws a TypeError when a record
\* that reached the step has no description
SearchThrows(records, f) ==
  Truthy(f.searchQuery) /\ \E k \in 1..Len(records) : records[k].description = Missing

\* whether getExpenses(filter) rejects instead of returning
getExpensesThrows(filter) ==
  IsDefined(filter) /\ SearchThrows(BeforeSearch(expenses, Val(filter)), Val(filter))

\* a mutant of AddAmount: the amount replaces the sum so far
AddAmountOverwrite(obj, key, amount) == ObjSet(obj, key, amount)

\* obj[key] = (obj[key] || 0) + amount
AddAmount(obj, key, amount) ==
  ObjSet(obj, key, (IF HasKey(obj, key) /\ ObjGet(obj, key) # 0 THEN ObjGet(obj, key) ELSE 0) + amount)

\* date.substring(0, 7), "YYYY-MM"
MonthOf(date) == Substring(date, 0, 7)

\* a mutant of TotalAmount: the loop starts behind the first record
TotalAmountSkippingFirst(records) ==
  LET sum[n \in 1..Len(records)] == IF n = 1 THEN 0 ELSE sum[n - 1] + records[n].amount
  IN  IF records = <<>> THEN 0 ELSE sum[Len(records)]

\* records.reduce((sum, r) => sum + r.amount, 0)
TotalAmount(records) ==
  LET sum[n \in 0..Len(records)] == IF n = 0 THEN 0 ELSE sum[n - 1] + records[n].amount
  IN  sum[Len(records)]

\* the byMonth object the forEach of a summary builds
ByMonth(records) ==
  LET acc[n \in 0..Len(records)] ==
        IF n = 0 THEN <<>> ELSE AddAmount(acc[n - 1], MonthOf(records[n].date), records[n].amount)
  IN  acc[Len(records)]

\* the byCategory object the forEach of getExpenseSummary builds
ByCategory(records) ==
  LET acc[n \in 0..Len(records)] ==
        IF n = 0 THEN <<>> ELSE AddAmount(acc[n - 1], records[n].category, records[n].amount)
  IN  acc[Len(records)]

\* total / count guarded by count > 0
Average(total, count) == IF count > 0 THEN Frac(total, count) ELSE Zero

\* getExpenseSummary after its call of getExpenses
SummarizeExpenses(filtered) ==
  [totalExpenses |-> TotalAmount(filtered),
   averageExpense |-> Average(TotalAmount(filtered), Len(filtered)),
   expenseCount |-> Len(filtered),
   byCategory |-> ByCategory(filtered),
   byMonth |-> ByMonth(filtered)]

getExpenseSummary(filter) ==
  LET filtered == getExpenses(filter)
  IN  SummarizeExpenses(filtered)

\* the limit parameter of getRecentExpenses and getRecentIncome: limit = 5
DefaultLimit == 5

LimitOrDefault(limit) == IF IsDefined(limit) THEN Val(limit) ELSE DefaultLimit

\* [...expenses].sort(newest first).slice(0, limit)
getRecentExpenses(limit) ==
  ArraySlice(ArraySort("ByDateDescending", expenses), 0, LimitOrDefault(limit))

\* grouped[expense.date].push(expense), the group created empty when it is missing
PushToGroup(grouped, expense) ==
  ObjSet(grouped, expense.date,
         Append(IF HasKey(grouped, expense.date) THEN ObjGet(grouped, expense.date) ELSE <<>>,
                expense))

\* the grouped object the forEach of getExpensesByDate builds
GroupByDate(filtered) ==
  LET acc[n \in 0..Len(filtered)] ==
        IF n = 0 THEN <<>> ELSE PushToGroup(acc[n - 1], filtered[n])
  IN  acc[Len(filtered)]

getExpensesByDate(filter) == GroupByDate(getExpenses(filter))

(***************************************************************************)
(* services/income-data.ts                                                 *)
(***************************************************************************)
\* if (filter.source) ... i.source.toLowerCase() === filter.source.toLowerCase()
KeepSource(records, f) ==
  IF Truthy(f.source)
  THEN SelectSeq(records, LAMBDA i : ToLowerCase(i.source) = ToLowerCase(Val(f.source)))
  ELSE records

\* the filter chain of getIncome over a copy of the records
FilterIncome(records, filter) ==
  IF IsDefined(filter)
  THEN KeepToMaxAmount(
         KeepFromMinAmount(
           KeepSource(
             KeepToEndDate(
               KeepFromStartDate(records, Val(filter)),
               Val(filter)),
             Val(filter)),
           Val(filter)),
         Val(filter))
  ELSE records

getIncome(filter) == ArraySort("ByDateDescending", FilterIncome(incomeData, filter))

\* the bySource object the forEach of getIncomeSummary builds
BySource(records) ==
  LET acc[n \in 0..Len(records)] ==
        IF n = 0 THEN <<>> ELSE AddAmount(acc[n - 1], records[n].source, records[n].amount)
  IN  acc[Len(records)]

\* getIncomeSummary after its call of getIncome
SummarizeIncome(filtered) ==
  [totalIncome |-> TotalAmount(filtered),
   averageIncome |-> Average(TotalAmount(filtered), Len(filtered)),
   incomeCount |-> Len(filtered),
   bySource |-> BySource(filtered),
   byMonth |-> ByMonth(filtered)]

getIncomeSummary(filter) ==
  LET filtered == getIncome(filter)
  IN  SummarizeIncome(filtered)

\* [...incomeData].sort(newest first).slice(0, limit)
getRecentIncome(limit) ==
  ArraySlice(ArraySort("ByDateDescending", incomeData), 0, LimitOrDefault(limit))

(***************************************************************************)
(* services/analytics-data.ts                                              *)
(***************************************************************************)
\* the colour of each known category, keyed by its name ("Groceries", "Rent",
\* "Transportation", "Utilities", "Entertainment", "Dining", "Healthcare",
\* "Shopping", "Subscriptions")
categoryColors ==
  <<
    <<<<71, 114, 111, 99, 101, 114, 105, 101, 115>>, "#10b981">>,
    <<Rent, "#6366f1">>,
    <<<<84, 114, 97, 110, 115, 112, 111, 114, 116, 97, 116, 105, 111, 110>>, "#f59e0b">>,
    <<<<85, 116, 105, 108, 105, 116, 105, 101, 115>>, "#8b5cf6">>,
    <<<<69, 110, 116, 101, 114, 116, 97, 105, 110, 109, 101, 110, 116>>, "#ec4899">>,
    <<Dining, "#f97316">>,
    <<<<72, 101, 97, 108, 116, 104, 99, 97, 114, 101>>, "#ef4444">>,
    <<<<83, 104, 111, 112, 112, 105, 110, 103>>, "#06b6d4">>,
    <<<<83, 117, 98, 115, 99, 114, 105, 112, 116, 105, 111, 110, 115>>, "#84cc16">>>>

\* categoryColors[category] || "#64748b"
ColorOf(category) ==
  IF HasKey(categoryColors, category) THEN ObjGet(categoryColors, category) ELSE "#64748b"

\* totalIncome > 0 ? ((totalIncome - totalExpenses) / totalIncome) * 100 : 0
SavingsRate(totalIncome, totalExpenses) ==
  IF totalIncome > 0
  THEN FracTimes(Frac(totalIncome - totalExpenses, totalIncome), 100)
  ELSE Zero

\* a mutant of Difference: the operands swapped
DifferenceSwapped(income, spent) == spent - income

\* income - expenses, as balance and as savings
Difference(income, spent) == income - spent

\* getBalanceSummary after its calls of the two summaries
BalanceOf(totalIncome, totalExpenses) ==
  [totalIncome |-> totalIncome,
   totalExpenses |-> totalExpenses,
   balance |-> Difference(totalIncome, totalExpenses),
   savingsRate |-> SavingsRate(totalIncome, totalExpenses)]

\* a mutant of getBalanceSummary: the first filter is handed to both summaries
getBalanceSummaryOneFilter(expenseFilter, incomeFilter) ==
  BalanceOf(getIncomeSummary(expenseFilter).totalIncome,
            getExpenseSummary(expenseFilter).totalExpenses)

getBalanceSummary(expenseFilter, incomeFilter) ==
  BalanceOf(getIncomeSummary(incomeFilter).totalIncome,
            getExpenseSummary(expenseFilter).totalExpenses)

\* a mutant of Percentage: the share is not scaled to a percentage
PercentageAsShare(amount, total) ==
  IF total > 0 THEN Frac(amount, total) ELSE Zero

\* total > 0 ? (amount / total) * 100 : 0
Percentage(amount, total) ==
  IF total > 0 THEN FracTimes(Frac(amount, total), 100) ELSE Zero

\* Object.entries(summary.byCategory).map(...) of getSpendingByCategory
CategoryRows(entries, total) ==
  [i \in 1..Len(entries) |->
     [category |-> entries[i][1],
      amount |-> entries[i][2],
      percentage |-> Percentage(entries[i][2], total),
      color |-> ColorOf(entries[i][1])]]

\* getSpendingByCategory after its call of getExpenseSummary
BreakdownOf(summary) ==
  ArraySort("ByAmountDescending",
    CategoryRows(ObjectEntries(summary.byCategory), summary.totalExpenses))

getSpendingByCategory(filter) == BreakdownOf(getExpenseSummary(filter))

\* if (!dataByDate[date]) dataByDate[date] = { income: 0, expenses: 0 }
TouchDate(obj, date) ==
  IF HasKey(obj, date) THEN obj ELSE ObjSet(obj, date, [income |-> 0, expenses |-> 0])

\* dataByDate[e.date].expenses += e.amount, on a touched object
AddDateExpense(obj, e) ==
  ObjSet(obj, e.date, [ObjGet(obj, e.date) EXCEPT !.expenses = @ + e.amount])

\* dataByDate[i.date].income += i.amount, on a touched object
AddDateIncome(obj, i) ==
  ObjSet(obj, i.date, [ObjGet(obj, i.date) EXCEPT !.income = @ + i.amount])

\* expenses.forEach(...) of getSpendingTrends
DatesOfExpenses(spent) ==
  LET acc[n \in 0..Len(spent)] ==
        IF n = 0 THEN <<>>
        ELSE AddDateExpense(TouchDate(acc[n - 1], spent[n].date), spent[n])
  IN  acc[Len(spent)]

\* income.forEach(...) of getSpendingTrends, on the object the expenses left
DatesOfIncome(obj, earned) ==
  LET acc[n \in 0..Len(earned)] ==
        IF n = 0 THEN obj
        ELSE AddDateIncome(TouchDate(acc[n - 1], earned[n].date), earned[n])
  IN  acc[Len(earned)]

\* Object.entries(dataByDate).map(...)
TrendRows(entries) ==
  [i \in 1..Len(entries) |->
     [date |-> entries[i][1],
      income |-> entries[i][2].income,
      expenses |-> entries[i][2].expenses,
      balance |-> Difference(entries[i][2].income, entries[i][2].expenses)]]

\* getSpendingTrends after its calls of getExpenses and getIncome
TrendsOf(spent, earned) ==
  ArraySort("ByDateAscendingKey",
    TrendRows(ObjectEntries(DatesOfIncome(DatesOfExpenses(spent), earned))))

getSpendingTrends(filter) == TrendsOf(getExpenses(filter), getIncome(filter))

\* the default of the parameter months
DefaultMonths == 6

\* the number of top categories kept for a month
TopCategories == 3

\* a mutant of TouchMonth: the month starts from zero at every record
TouchMonthAfresh(obj, month) ==
  ObjSet(obj, month, [income |-> 0, expenses |-> 0, categories |-> <<>>])

\* if (!dataByMonth[month]) dataByMonth[month] = { income: 0, expenses: 0, categories: {} }
TouchMonth(obj, month) ==
  IF HasKey(obj, month) THEN obj
  ELSE ObjSet(obj, month, [income |-> 0, expenses |-> 0, categories |-> <<>>])

\* the two additions an expense makes to its month, on a touched object
AddMonthExpense(obj, month, e) ==
  ObjSet(obj, month, [ObjGet(obj, month) EXCEPT
                        !.expenses = @ + e.amount,
                        !.categories = AddAmount(@, e.category, e.amount)])

\* a mutant of AddMonthIncome: the amount is booked as an expense of the month
AddMonthIncomeAsExpense(obj, month, i) ==
  ObjSet(obj, month, [ObjGet(obj, month) EXCEPT !.expenses = @ + i.amount])

\* dataByMonth[month].income += i.amount, on a touched object
AddMonthIncome(obj, month, i) ==
  ObjSet(obj, month, [ObjGet(obj, month) EXCEPT !.income = @ + i.amount])

\* expenses.forEach(...) of getMonthlyBreakdown
MonthsOfExpenses(spent) ==
  LET acc[n \in 0..Len(spent)] ==
        IF n = 0 THEN <<>>
        ELSE AddMonthExpense(TouchMonth(acc[n - 1], MonthOf(spent[n].date)),
                             MonthOf(spent[n].date), spent[n])
  IN  acc[Len(spent)]

\* income.forEach(...) of getMonthlyBreakdown, on the object the expenses left
MonthsOfIncome(obj, earned) ==
  LET acc[n \in 0..Len(earned)] ==
        IF n = 0 THEN obj
        ELSE AddMonthIncome(TouchMonth(acc[n - 1], MonthOf(earned[n].date)),
                            MonthOf(earned[n].date), earned[n])
  IN  acc[Len(earned)]

\* Object.entries(data.categories).map(([name, amount]) => ({ name, amount }))
NamedAmounts(entries) ==
  [i \in 1..Len(entries) |-> [name |-> entries[i][1], amount |-> entries[i][2]]]

\* the categories of a month by descending amount, the first three of them
TopOf(categories) ==
  ArraySlice(ArraySort("ByAmountDescending", NamedAmounts(ObjectEntries(categories))),
             0, TopCategories)

\* Object.entries(dataByMonth).map(...)
MonthRows(entries) ==
  [i \in 1..Len(entries) |->
     [month |-> entries[i][1],
      income |-> entries[i][2].income,
      expenses |-> entries[i][2].expenses,
      savings |-> Difference(entries[i][2].income, entries[i][2].expenses),
      topCategories |-> TopOf(entries[i][2].categories)]]

\* a mutant of TakeMonths: one entry too many
TakeMonthsAndOne(entries, months) == ArraySlice(entries, 0, months + 1)

\* .slice(0, months)
TakeMonths(entries, months) == ArraySlice(entries, 0, months)

\* getMonthlyBreakdown after its calls of getExpenses and getIncome
BreakdownByMonth(spent, earned, months) ==
  TakeMonths(
    ArraySort("ByMonthDescending",
      MonthRows(ObjectEntries(MonthsOfIncome(MonthsOfExpenses(spent), earned)))),
    months)

\* months: number = 6
MonthsOrDefault(monthsArg) == IF IsDefined(monthsArg) THEN Val(monthsArg) ELSE DefaultMonths

getMonthlyBreakdown(monthsArg) ==
  BreakdownByMonth(getExpenses(Undefined), getIncome(Undefined), MonthsOrDefault(monthsArg))

\* String.prototype.padStart(targetLength, c) for a one-character pad string
PadStart(str, targetLength, c) == [i \in 1..(targetLength - Len(str)) |-> c] \o str

\* `${year}-${String(month).padStart(2, "0")}-${day}` for the two-digit text day
DayOfMonth(year, month, day) ==
  NumToStr(year) \o <<Hyphen>> \o PadStart(NumToStr(month), 2, Digit(0)) \o <<Hyphen>> \o day

\* the filter getDailySpending hands to getExpenses: the month from "-01" to "-31"
MonthRange(year, month) ==
  Some([EmptyFilter EXCEPT !.startDate = Some(DayOfMonth(year, month, <<Digit(0), Digit(1)>>)),
                           !.endDate = Some(DayOfMonth(year, month, <<Digit(3), Digit(1)>>))])

\* parseInt(e.date.split("-")[2]) of a date "YYYY-MM-DD"
DayOf(date) == ParseDigits(SubSeq(date, 9, 10))

\* the dailyData object the forEach of getDailySpending builds, keyed by String(day)
DailyData(records) ==
  LET acc[n \in 0..Len(records)] ==
        IF n = 0 THEN <<>>
        ELSE AddAmount(acc[n - 1], NumToStr(DayOf(records[n].date)), records[n].amount)
  IN  acc[Len(records)]

\* .map(([day, amount]) => ({ day: parseInt(day), amount }))
DayAmounts(entries) ==
  [i \in 1..Len(entries) |-> [day |-> ParseDigits(entries[i][1]), amount |-> entries[i][2]]]

getDailySpending(year, month) ==
  ArraySort("ByDayAscending", DayAmounts(ObjectEntries(DailyData(getExpenses(MonthRange(year, month))))))

(***************************************************************************)
(* The state machine.  The store starts empty: the state that              *)
(* deleteExpenses and deleteIncome of every mock record leave behind.      *)
(* JavaScript runs one call at a time: call and result hold the call made  *)
(* last and the value it returned, until the caller has taken it.          *)
(***************************************************************************)
Null == <<>>

\* the rejection of a call by a TypeError, as the value that takes the result's place
TypeError == <<[error |-> "TypeError"]>>

Idle == [op |-> "none"]

(***************************************************************************)
(* The CSV files public/data/expenses.csv and public/data/users.csv.  A    *)
(* file that exists is the sequence of its lines and a line the sequence   *)
(* of its comma-separated parts; the values written here hold no comma     *)
(* and no line break.                                                      *)
(***************************************************************************)
\* !fs.existsSync(path): the file is not there
NoFile == <<<<<<-1>>>>>>

\* the column names "id", "userId", "date", ... of the header lines
ColId == <<105, 100>>

ColUserId == <<117, 115, 101, 114, 73, 100>>

ColDate == <<100, 97, 116, 101>>

ColAmount == <<97, 109, 111, 117, 110, 116>>

ColCategory == <<99, 97, 116, 101, 103, 111, 114, 121>>

ColDescription == <<100, 101, 115, 99, 114, 105, 112, 116, 105, 111, 110>>

ColType == <<116, 121, 112, 101>>

ColCreatedAt == <<99, 114, 101, 97, 116, 101, 100, 65, 116>>

ColEmail == <<101, 109, 97, 105, 108>>

ColPassword == <<112, 97, 115, 115, 119, 111, 114, 100>>

ColName == <<110, 97, 109, 101>>

\* "id,userId,date,amount,category,description,type,createdAt"
ExpensesHeader ==
  <<ColId, ColUserId, ColDate, ColAmount, ColCategory, ColDescription, ColType, ColCreatedAt>>

\* "id,email,password,name,createdAt"
UsersHeader == <<ColId, ColEmail, ColPassword, ColName, ColCreatedAt>>

\* space, tab, line feed, carriage return
IsSpace(c) == c \in {32, 9, 10, 13}

RECURSIVE TrimStart(_)
TrimStart(str) == IF str # <<>> /\ IsSpace(str[1]) THEN TrimStart(Tail(str)) ELSE str

RECURSIVE TrimEnd(_)
TrimEnd(str) ==
  IF str # <<>> /\ IsSpace(str[Len(str)]) THEN TrimEnd(SubSeq(str, 1, Len(str) - 1)) ELSE str

\* String.prototype.trim
Trim(str) == TrimEnd(TrimStart(str))

\* `${n}` for an integer n
NumberText(n) == IF n < 0 THEN <<Hyphen>> \o NumToStr(-n) ELSE NumToStr(n)

\* description.replace(/,/g, " ")
ReplaceCommas(str) == [i \in 1..Len(str) |-> IF str[i] = 44 THEN 32 ELSE str[i]]

\* arr.join(",") writes an undefined element as the empty string
PartOrEmpty(obj, key) == IF HasKey(obj, key) THEN ObjGet(obj, key) ELSE <<>>

Init ==
  /\ expenses = <<>>
  /\ incomeData = <<>>
  /\ now = 1
  /\ call = Idle
  /\ result = Null
  /\ expensesFile = <<ExpensesHeader>>
  /\ usersFile = <<UsersHeader>>

\* the clock Date.now() reads moves on
Tick ==
  /\ now < MaxClock
  /\ now' = now + 1
  /\ UNCHANGED <<expenses, incomeData, call, result, files>>

\* { ...record, ...updates }
Merge(record, updates) ==
  [record EXCEPT !.amount = IF IsDefined(updates.amount) THEN Val(updates.amount) ELSE @,
                 !.date   = IF IsDefined(updates.date) THEN Val(updates.date) ELSE @]

\* { ...expense, id: String(Date.now()), type: "expense" }
NewExpense(expense) ==
  [id |-> NumToStr(now), amount |-> expense.amount, date |-> expense.date,
   category |-> expense.category, description |-> expense.description, type |-> "expense"]

addExpense(expense) ==
  /\ expenses' = Append(expenses, NewExpense(expense))
  /\ call' = [op |-> "addExpense", expense |-> expense]
  /\ result' = NewExpense(expense)
  /\ UNCHANGED <<incomeData, now, files>>

updateExpense(id, updates) ==
  LET index == FindIndex(expenses, id)
  IN  /\ call' = [op |-> "updateExpense", id |-> id, updates |-> updates]
      /\ IF index = 0
         THEN /\ result' = Null
              /\ UNCHANGED expenses
         ELSE /\ expenses' = [expenses EXCEPT ![index] = Merge(@, updates)]
              /\ result' = Some(expenses'[index])
      /\ UNCHANGED <<incomeData, now, files>>

deleteExpense(id) ==
  LET index == FindIndex(expenses, id)
  IN  /\ call' = [op |-> "deleteExpense", id |-> id]
      /\ IF index = 0
         THEN /\ result' = FALSE
              /\ UNCHANGED expenses
         ELSE /\ expenses' = SubSeq(expenses, 1, index - 1) \o SubSeq(expenses, index + 1, Len(expenses))
              /\ result' = TRUE
      /\ UNCHANGED <<incomeData, now, files>>

deleteExpenses(ids) ==
  /\ expenses' = SelectSeq(expenses, LAMBDA e : ~(\E k \in 1..Len(ids) : ids[k] = e.id))
  /\ call' = [op |-> "deleteExpenses", ids |-> ids]
  /\ result' = Len(expenses) - Len(expenses')
  /\ UNCHANGED <<incomeData, now, files>>

\* { ...income, id: String(Date.now()) }
NewIncome(income) ==
  [id |-> NumToStr(now), amount |-> income.amount, date |-> income.date,
   source |-> income.source, description |-> income.description]

addIncome(income) ==
  /\ incomeData' = Append(incomeData, NewIncome(income))
  /\ call' = [op |-> "addIncome", income |-> income]
  /\ result' = NewIncome(income)
  /\ UNCHANGED <<expenses, now, files>>

updateIncome(id, updates) ==
  LET index == FindIndex(incomeData, id)
  IN  /\ call' = [op |-> "updateIncome", id |-> id, updates |-> updates]
      /\ IF index = 0
         THEN /\ result' = Null
              /\ UNCHANGED incomeData
         ELSE /\ incomeData' = [incomeData EXCEPT ![index] = Merge(@, updates)]
              /\ result' = Some(incomeData'[index])
      /\ UNCHANGED <<expenses, now, files>>

deleteIncome(id) ==
  LET index == FindIndex(incomeData, id)
  IN  /\ call' = [op |-> "deleteIncome", id |-> id]
      /\ IF index = 0
         THEN /\ result' = FALSE
              /\ UNCHANGED incomeData
         ELSE /\ incomeData' = SubSeq(incomeData, 1, index - 1) \o SubSeq(incomeData, index + 1, Len(incomeData))
              /\ result' = TRUE
      /\ UNCHANGED <<expenses, now, files>>

AddExpense ==
  /\ call = Idle
  /\ Len(expenses) < MaxExpenses
  /\ \E expense \in ExpenseInputs : addExpense(expense)

UpdateExpense ==
  /\ call = Idle
  /\ \E id \in Ids, updates \in ExpenseUpdates : updateExpense(id, updates)

DeleteExpense ==
  /\ call = Idle
  /\ \E id \in Ids : deleteExpense(id)

DeleteExpenses ==
  /\ call = Idle
  /\ \E ids \in IdLists : deleteExpenses(ids)

AddIncome ==
  /\ call = Idle
  /\ Len(incomeData) < MaxIncome
  /\ \E income \in IncomeInputs : addIncome(income)

UpdateIncome ==
  /\ call = Idle
  /\ \E id \in Ids, updates \in IncomeUpdates : updateIncome(id, updates)

DeleteIncome ==
  /\ call = Idle
  /\ \E id \in Ids : deleteIncome(id)

\* the caller takes the returned value; the next call is made after that
Return ==
  /\ call # Idle
  /\ call.op # "suspended"
  /\ call' = Idle
  /\ result' = Null
  /\ UNCHANGED <<expenses, incomeData, now, files>>

\* the operations that change the record store, the clock and the return
Write ==
  \/ Tick
  \/ Return
  \/ AddExpense
  \/ UpdateExpense
  \/ DeleteExpense
  \/ DeleteExpenses
  \/ AddIncome
  \/ UpdateIncome
  \/ DeleteIncome

\* a mutant of StoreBehindCopy: the read sorts the store itself
StoreSortedInPlace(store) == ArraySort("ByDateDescending", store)

\* let filtered = [...expenses] and [...expenses].sort(...): the filter steps, the sort
\* and the slice of a read work on a copy, so the store behind the copy keeps its
\* records and their order
StoreBehindCopy(store) == store

\* what a read through getExpenses or getRecentExpenses leaves of the state
ReadOfExpenses ==
  /\ expenses' = StoreBehindCopy(expenses)
  /\ UNCHANGED <<incomeData, now, files>>

\* what a read through getIncome or getRecentIncome leaves of the state
ReadOfIncome ==
  /\ incomeData' = StoreBehindCopy(incomeData)
  /\ UNCHANGED <<expenses, now, files>>

\* what a read through both getExpenses and getIncome leaves of the state
ReadOfBoth ==
  /\ expenses' = StoreBehindCopy(expenses)
  /\ incomeData' = StoreBehindCopy(incomeData)
  /\ UNCHANGED <<now, files>>

GetExpenses ==
  /\ call = Idle
  /\ \E filter \in ExpenseFilters :
       /\ call' = [op |-> "getExpenses", filter |-> filter]
       /\ result' = IF getExpensesThrows(filter) THEN TypeError ELSE getExpenses(filter)
       /\ ReadOfExpenses

GetIncome ==
  /\ call = Idle
  /\ \E filter \in IncomeFilters :
       /\ call' = [op |-> "getIncome", filter |-> filter]
       /\ result' = getIncome(filter)
       /\ ReadOfIncome

NextFilter == Write \/ GetExpenses \/ GetIncome

\* the record store with the two filtered reads
SpecFilter == Init /\ [][NextFilter]_vars

GetExpenseSummary ==
  /\ call = Idle
  /\ \E filter \in ExpenseFilters :
       /\ call' = [op |-> "getExpenseSummary", filter |-> filter]
       /\ result' = IF getExpensesThrows(filter) THEN TypeError ELSE getExpenseSummary(filter)
       /\ ReadOfExpenses

GetIncomeSummary ==
  /\ call = Idle
  /\ \E filter \in IncomeFilters :
       /\ call' = [op |-> "getIncomeSummary", filter |-> filter]
       /\ result' = getIncomeSummary(filter)
       /\ ReadOfIncome

NextSummary == Write \/ GetExpenseSummary \/ GetIncomeSummary

\* the record store with the two summaries
SpecSummary == Init /\ [][NextSummary]_vars

\* the filter pairs getBalanceSummary is called with; the registered tool passes
\* its date range as the first argument and no second one
BalanceFilters ==
  {<<Undefined, Undefined>>,
   <<Some([EmptyFilter EXCEPT !.startDate = Some(Feb01)]), Undefined>>,
   <<Some([EmptyFilter EXCEPT !.endDate = Some(Feb01)]),
     Some([EmptyFilter EXCEPT !.endDate = Some(Jan15)])>>,
   <<Some([EmptyFilter EXCEPT !.category = Some(QueryRent)]),
     Some([EmptyFilter EXCEPT !.source = Some(QuerySalary)])>>,
   <<Undefined, Some([EmptyFilter EXCEPT !.minAmount = Some(0)])>>,
   <<Some([EmptyFilter EXCEPT !.minAmount = Some(50), !.maxAmount = Some(50)]),
     Some([EmptyFilter EXCEPT !.startDate = Some(Feb01)])>>}

\* the filters getSpendingTrends is called with: ExpenseFilter & IncomeFilter
TrendFilters ==
  {Undefined,
   Some([EmptyFilter EXCEPT !.startDate = Some(Feb01)]),
   Some([EmptyFilter EXCEPT !.endDate = Some(Feb01)]),
   Some([EmptyFilter EXCEPT !.category = Some(QueryRent)]),
   Some([EmptyFilter EXCEPT !.minAmount = Some(0), !.maxAmount = Some(100)])}

\* the arguments getMonthlyBreakdown is called with
MonthCounts == {Undefined, Some(-1), Some(0), Some(1), Some(2), Some(3)}

GetBalanceSummary ==
  /\ call = Idle
  /\ \E filters \in BalanceFilters :
       /\ call' = [op |-> "getBalanceSummary", expenseFilter |-> filters[1], incomeFilter |-> filters[2]]
       /\ result' = IF getExpensesThrows(filters[1]) THEN TypeError ELSE getBalanceSummary(filters[1], filters[2])
       /\ ReadOfBoth

GetSpendingByCategory ==
  /\ call = Idle
  /\ \E filter \in ExpenseFilters :
       /\ call' = [op |-> "getSpendingByCategory", filter |-> filter]
       /\ result' = IF getExpensesThrows(filter) THEN TypeError ELSE getSpendingByCategory(filter)
       /\ ReadOfExpenses

GetSpendingTrends ==
  /\ call = Idle
  /\ \E filter \in TrendFilters :
       /\ call' = [op |-> "getSpendingTrends", filter |-> filter]
       /\ result' = IF getExpensesThrows(filter) THEN TypeError ELSE getSpendingTrends(filter)
       /\ ReadOfBoth

GetMonthlyBreakdown ==
  /\ call = Idle
  /\ \E months \in MonthCounts :
       /\ call' = [op |-> "getMonthlyBreakdown", months |-> months]
       /\ result' = getMonthlyBreakdown(months)
       /\ ReadOfBoth

NextBalance == Write \/ GetBalanceSummary

\* the record store with the balance summary
SpecBalance == Init /\ [][NextBalance]_vars

NextCategory == Write \/ GetSpendingByCategory

\* the record store with the category breakdown
SpecCategory == Init /\ [][NextCategory]_vars

NextTrends == Write \/ GetSpendingTrends

\* the record store with the trend series
SpecTrends == Init /\ [][NextTrends]_vars

NextMonthly == Write \/ GetMonthlyBreakdown

\* the record store with the monthly breakdown
SpecMonthly == Init /\ [][NextMonthly]_vars

\* categories "Utilities" and "7" (a category is any string the caller gives)
Utilities == <<85, 116, 105, 108, 105, 116, 105, 101, 115>>

Seven == <<55>>

\* expenses of February 2026 in four categories, one of them a day later
MonthExpenseInputs ==
  {[amount |-> a, date |-> Feb01, category |-> c, description |-> DescFlat] :
     a \in {50, 100}, c \in {Rent, Dining, Utilities, Seven}}
    \cup {[amount |-> 50, date |-> Feb02, category |-> Dining, description |-> DescLunch]}

\* addExpense, called until one month holds MaxMonthExpenses expenses
AddExpenseOfMonth ==
  /\ call = Idle
  /\ Len(expenses) < MaxMonthExpenses
  /\ \E expense \in MonthExpenseInputs : addExpense(expense)

NextTopCategories == Return \/ AddExpenseOfMonth \/ GetMonthlyBreakdown

\* a store that grows to four expenses added within one reading of the clock, with
\* the monthly breakdown
SpecTopCategories == Init /\ [][NextTopCategories]_vars

\* filter texts "ren", "DINING" and "SAL"
QueryRen == <<114, 101, 110>>

QueryDiningUpper == <<68, 73, 78, 73, 78, 71>>

QuerySalUpper == <<83, 65, 76>>

\* filters that carry a category alone: a name in another case, a part of a name
CategoryFilters ==
  {Some([EmptyFilter EXCEPT !.category = Some(q)]) :
     q \in {QueryRent, QueryRen, QueryDiningUpper, QueryIn}}

\* filters that carry a source alone
SourceFilters ==
  {Some([EmptyFilter EXCEPT !.source = Some(q)]) : q \in {QuerySalary, QuerySalUpper, Freelance}}

\* getExpenses called with a category
GetExpensesOfCategory ==
  /\ call = Idle
  /\ \E filter \in CategoryFilters :
       /\ call' = [op |-> "getExpenses", filter |-> filter]
       /\ result' = IF getExpensesThrows(filter) THEN TypeError ELSE getExpenses(filter)
       /\ ReadOfExpenses

\* getIncome called with a source
GetIncomeOfSource ==
  /\ call = Idle
  /\ \E filter \in SourceFilters :
       /\ call' = [op |-> "getIncome", filter |-> filter]
       /\ result' = getIncome(filter)
       /\ ReadOfIncome

NextByName == Write \/ GetExpensesOfCategory \/ GetIncomeOfSource

\* the record store read by category and by source
SpecByName == Init /\ [][NextByName]_vars

\* arguments of addExpense that carry no description
UndescribedInputs ==
  {[amount |-> 50, date |-> Feb01, category |-> Dining, description |-> Missing],
   [amount |-> 100, date |-> Feb02, category |-> Rent, description |-> Missing]}

\* addExpense called without a description
AddExpenseUndescribed ==
  /\ call = Idle
  /\ Len(expenses) < MaxExpenses
  /\ \E expense \in UndescribedInputs : addExpense(expense)

\* filters that carry a searchQuery, one of them behind a category
SearchFilters ==
  {Some([EmptyFilter EXCEPT !.searchQuery = Some(q)]) : q \in {QueryLunch, QueryIn, QueryRent}}
    \cup {Some([EmptyFilter EXCEPT !.category = Some(QueryRent), !.searchQuery = Some(QueryRen)])}

\* getExpenses called with a searchQuery
GetExpensesBySearch ==
  /\ call = Idle
  /\ \E filter \in SearchFilters :
       /\ call' = [op |-> "getExpenses", filter |-> filter]
       /\ result' = IF getExpensesThrows(filter) THEN TypeError ELSE getExpenses(filter)
       /\ ReadOfExpenses

\* getIncome handed a filter that carries a searchQuery, as getSpendingTrends hands it
IncomeSearchFilters ==
  {Some([EmptyFilter EXCEPT !.searchQuery = Some(q)]) : q \in {QueryLunch, QuerySalary}}

GetIncomeBySearch ==
  /\ call = Idle
  /\ \E filter \in IncomeSearchFilters :
       /\ call' = [op |-> "getIncome", filter |-> filter]
       /\ result' = getIncome(filter)
       /\ ReadOfIncome

NextSearch == Write \/ AddExpenseUndescribed \/ GetExpensesBySearch \/ GetIncomeBySearch

\* the record store, with expenses that have no description, searched
SpecSearch == Init /\ [][NextSearch]_vars

\* filters with one malformed field: an empty string, null or NaN
MalformedExpenseFilters ==
  {Some([EmptyFilter EXCEPT !.startDate = Some(<<>>)]),
   Some([EmptyFilter EXCEPT !.endDate = Some(<<>>)]),
   Some([EmptyFilter EXCEPT !.category = Some(<<>>)]),
   Some([EmptyFilter EXCEPT !.searchQuery = Some(<<>>)]),
   Some([EmptyFilter EXCEPT !.minAmount = JsNull]),
   Some([EmptyFilter EXCEPT !.maxAmount = JsNull]),
   Some([EmptyFilter EXCEPT !.minAmount = NaN]),
   Some([EmptyFilter EXCEPT !.maxAmount = NaN])}

MalformedIncomeFilters ==
  {Some([EmptyFilter EXCEPT !.startDate = Some(<<>>)]),
   Some([EmptyFilter EXCEPT !.endDate = Some(<<>>)]),
   Some([EmptyFilter EXCEPT !.source = Some(<<>>)]),
   Some([EmptyFilter EXCEPT !.minAmount = JsNull]),
   Some([EmptyFilter EXCEPT !.maxAmount = JsNull]),
   Some([EmptyFilter EXCEPT !.minAmount = NaN]),
   Some([EmptyFilter EXCEPT !.maxAmount = NaN])}

\* getExpenses called with a malformed filter field
GetExpensesMalformed ==
  /\ call = Idle
  /\ \E filter \in MalformedExpenseFilters :
       /\ call' = [op |-> "getExpenses", filter |-> filter]
       /\ result' = IF getExpensesThrows(filter) THEN TypeError ELSE getExpenses(filter)
       /\ ReadOfExpenses

\* getIncome called with a malformed filter field
GetIncomeMalformed ==
  /\ call = Idle
  /\ \E filter \in MalformedIncomeFilters :
       /\ call' = [op |-> "getIncome", filter |-> filter]
       /\ result' = getIncome(filter)
       /\ ReadOfIncome

NextMalformed == Write \/ GetExpensesMalformed \/ GetIncomeMalformed

\* the record store read with malformed filters
SpecMalformed == Init /\ [][NextMalformed]_vars

\* the limits getRecentExpenses and getRecentIncome are called with
RecentLimits == {Undefined, Some(-1), Some(0), Some(1), Some(2)}

\* the (year, month) pairs getDailySpending is called with
DailyMonths == {<<2025, 12>>, <<2026, 1>>, <<2026, 2>>}

GetRecentExpenses ==
  /\ call = Idle
  /\ \E limit \in RecentLimits :
       /\ call' = [op |-> "getRecentExpenses", limit |-> limit]
       /\ result' = getRecentExpenses(limit)
       /\ ReadOfExpenses

GetRecentIncome ==
  /\ call = Idle
  /\ \E limit \in RecentLimits :
       /\ call' = [op |-> "getRecentIncome", limit |-> limit]
       /\ result' = getRecentIncome(limit)
       /\ ReadOfIncome

GetExpensesByDate ==
  /\ call = Idle
  /\ \E filter \in ExpenseFilters :
       /\ call' = [op |-> "getExpensesByDate", filter |-> filter]
       /\ result' = IF getExpensesThrows(filter) THEN TypeError ELSE getExpensesByDate(filter)
       /\ ReadOfExpenses

GetDailySpending ==
  /\ call = Idle
  /\ \E ym \in DailyMonths :
       /\ call' = [op |-> "getDailySpending", year |-> ym[1], month |-> ym[2]]
       /\ result' = getDailySpending(ym[1], ym[2])
       /\ ReadOfExpenses

NextReads ==
  \/ Return
  \/ Tick
  \/ AddExpense
  \/ AddIncome
  \/ GetExpenses
  \/ GetIncome
  \/ GetExpenseSummary
  \/ GetIncomeSummary
  \/ GetRecentExpenses
  \/ GetRecentIncome
  \/ GetExpensesByDate
  \/ GetBalanceSummary
  \/ GetSpendingByCategory
  \/ GetSpendingTrends
  \/ GetMonthlyBreakdown
  \/ GetDailySpending

\* stores that only grow, with every read of the three services
SpecReads == Init /\ [][NextReads]_vars

NextBalanceOfAdded == Return \/ Tick \/ AddExpense \/ AddIncome \/ GetBalanceSummary

\* stores that only grow, with getBalanceSummary
SpecBalanceOfAdded == Init /\ [][NextBalanceOfAdded]_vars

(***************************************************************************)
(* The aggregations step by step.  Each awaits its read of the expenses    *)
(* and then its read of the income; while it is suspended at the first     *)
(* await, other calls run.  The suspended call keeps what it read in       *)
(* result; the field stores of call records every content the two stores   *)
(* had while the call was under way.                                       *)
(***************************************************************************)
Suspended(name, expenseFilter, incomeFilter, months) ==
  [op |-> "suspended", of |-> name, expenseFilter |-> expenseFilter,
   incomeFilter |-> incomeFilter, months |-> months, stores |-> {<<expenses, incomeData>>}]

\* const expenseSummary = await getExpenseSummary(expenseFilter)
BeginBalanceSummary ==
  /\ call = Idle
  /\ \E filters \in BalanceFilters :
       /\ call' = Suspended("getBalanceSummary", filters[1], filters[2], Undefined)
       /\ result' = getExpenseSummary(filters[1])
  /\ ReadOfExpenses

\* const expenses = await getExpenses(filter)
BeginSpendingTrends ==
  /\ call = Idle
  /\ \E filter \in TrendFilters :
       /\ call' = Suspended("getSpendingTrends", filter, filter, Undefined)
       /\ result' = getExpenses(filter)
  /\ ReadOfExpenses

\* const expenses = await getExpenses()
BeginMonthlyBreakdown ==
  /\ call = Idle
  /\ \E months \in MonthCounts :
       /\ call' = Suspended("getMonthlyBreakdown", Undefined, Undefined, months)
       /\ result' = getExpenses(Undefined)
  /\ ReadOfExpenses

\* addExpense called while an aggregation is suspended
AddExpenseMeanwhile ==
  /\ call.op = "suspended"
  /\ Len(expenses) < MaxExpenses
  /\ \E expense \in ExpenseInputs : expenses' = Append(expenses, NewExpense(expense))
  /\ call' = [call EXCEPT !.stores = @ \cup {<<expenses', incomeData>>}]
  /\ UNCHANGED <<incomeData, now, result, files>>

\* addIncome called while an aggregation is suspended
AddIncomeMeanwhile ==
  /\ call.op = "suspended"
  /\ Len(incomeData) < MaxIncome
  /\ \E income \in IncomeInputs : incomeData' = Append(incomeData, NewIncome(income))
  /\ call' = [call EXCEPT !.stores = @ \cup {<<expenses, incomeData'>>}]
  /\ UNCHANGED <<expenses, now, result, files>>

\* const incomeSummary = await getIncomeSummary(incomeFilter), and the rest of the body
ResumeBalanceSummary ==
  /\ call.op = "suspended"
  /\ call.of = "getBalanceSummary"
  /\ call' = [call EXCEPT !.op = "getBalanceSummary"]
  /\ result' = BalanceOf(getIncomeSummary(call.incomeFilter).totalIncome, result.totalExpenses)
  /\ ReadOfIncome

\* const income = await getIncome(filter), and the rest of the body
ResumeSpendingTrends ==
  /\ call.op = "suspended"
  /\ call.of = "getSpendingTrends"
  /\ call' = [call EXCEPT !.op = "getSpendingTrends"]
  /\ result' = TrendsOf(result, getIncome(call.incomeFilter))
  /\ ReadOfIncome

\* const income = await getIncome(), and the rest of the body
ResumeMonthlyBreakdown ==
  /\ call.op = "suspended"
  /\ call.of = "getMonthlyBreakdown"
  /\ call' = [call EXCEPT !.op = "getMonthlyBreakdown"]
  /\ result' = BreakdownByMonth(result, getIncome(Undefined), MonthsOrDefault(call.months))
  /\ ReadOfIncome

NextInterleaved ==
  \/ Return
  \/ AddExpense
  \/ AddIncome
  \/ BeginBalanceSummary
  \/ BeginSpendingTrends
  \/ BeginMonthlyBreakdown
  \/ AddExpenseMeanwhile
  \/ AddIncomeMeanwhile
  \/ ResumeBalanceSummary
  \/ ResumeSpendingTrends
  \/ ResumeMonthlyBreakdown

\* stores that grow, also while an aggregation is suspended at its first await
SpecInterleaved == Init /\ [][NextInterleaved]_vars

(***************************************************************************)
(* services/expense-data.ts (API-backed store): the reads.  The rows the   *)
(* GET route serves for the user are the expenses of the model; outcome is *)
(* what getUserSession() and fetch() come back with.                       *)
(***************************************************************************)
ApiOutcomes == {"ok", "noSession", "notOk", "throws"}

\* (e.description?.toLowerCase().includes(query) || false) || e.category...includes(query)
KeepSearchQueryOptional(records, f) ==
  IF Truthy(f.searchQuery)
  THEN SelectSeq(records, LAMBDA e :
         \/ /\ e.description # Missing
            /\ Includes(ToLowerCase(e.description), ToLowerCase(Val(f.searchQuery)))
         \/ Includes(ToLowerCase(e.category), ToLowerCase(Val(f.searchQuery))))
  ELSE records

\* the filter chain of the API-backed getExpenses over the fetched rows
FilterFetched(records, filter) ==
  IF IsDefined(filter)
  THEN KeepSearchQueryOptional(BeforeSearch(records, Val(filter)), Val(filter))
  ELSE records

\* a mutant of getExpensesFromApi: the rows are used whatever response.ok says
getExpensesFromApiUnchecked(outcome, filter) ==
  IF outcome = "noSession" THEN <<>>
  ELSE IF outcome = "throws" THEN <<>>
  ELSE ArraySort("ByDateDescending", FilterFetched(expenses, filter))

\* if (!user) return []; try { fetch; if (!response.ok) return []; ... } catch { return [] }
getExpensesFromApi(outcome, filter) ==
  IF outcome = "noSession" THEN <<>>
  ELSE IF outcome = "throws" THEN <<>>
  ELSE IF outcome = "notOk" THEN <<>>
  ELSE ArraySort("ByDateDescending", FilterFetched(expenses, filter))

getExpenseSummaryFromApi(outcome, filter) == SummarizeExpenses(getExpensesFromApi(outcome, filter))

getSpendingByCategoryFromApi(outcome, filter) == BreakdownOf(getExpenseSummaryFromApi(outcome, filter))

getBalanceSummaryFromApi(outcome, expenseFilter, incomeFilter) ==
  BalanceOf(getIncomeSummary(incomeFilter).totalIncome,
            getExpenseSummaryFromApi(outcome, expenseFilter).totalExpenses)

GetExpensesFromApi ==
  /\ call = Idle
  /\ \E outcome \in ApiOutcomes, filter \in ExpenseFilters :
       /\ call' = [op |-> "api.getExpenses", outcome |-> outcome, filter |-> filter]
       /\ result' = getExpensesFromApi(outcome, filter)
  /\ ReadOfExpenses

GetExpenseSummaryFromApi ==
  /\ call = Idle
  /\ \E outcome \in ApiOutcomes, filter \in ExpenseFilters :
       /\ call' = [op |-> "api.getExpenseSummary", outcome |-> outcome, filter |-> filter]
       /\ result' = getExpenseSummaryFromApi(outcome, filter)
  /\ ReadOfExpenses

GetSpendingByCategoryFromApi ==
  /\ call = Idle
  /\ \E outcome \in ApiOutcomes, filter \in ExpenseFilters :
       /\ call' = [op |-> "api.getSpendingByCategory", outcome |-> outcome, filter |-> filter]
       /\ result' = getSpendingByCategoryFromApi(outcome, filter)
  /\ ReadOfExpenses

GetBalanceSummaryFromApi ==
  /\ call = Idle
  /\ \E outcome \in ApiOutcomes, filters \in BalanceFilters :
       /\ call' = [op |-> "api.getBalanceSummary", outcome |-> outcome,
                   expenseFilter |-> filters[1], incomeFilter |-> filters[2]]
       /\ result' = getBalanceSummaryFromApi(outcome, filters[1], filters[2])
  /\ ReadOfBoth

NextApiReads ==
  \/ Return
  \/ AddExpense
  \/ AddIncome
  \/ GetExpensesFromApi
  \/ GetExpenseSummaryFromApi
  \/ GetSpendingByCategoryFromApi
  \/ GetBalanceSummaryFromApi

\* rows that grow, with the reads of the API-backed service under every outcome
SpecApiReads == Init /\ [][NextApiReads]_vars

(***************************************************************************)
(* app/api/expenses/route.ts and app/api/expenses/[id]/route.ts.  A        *)
(* handler runs from its file read to its file write without an await, so  *)
(* a request is one step.  A route takes the file and returns the file it  *)
(* leaves with the status (and the body) of its response.                  *)
(***************************************************************************)
\* the file rows a test may hold: the header or a first record, and two more lines
MaxFileLines == 3

\* "u1", "expense", "exp_"
UserOne == <<117, 49>>

TypeExpense == <<101, 120, 112, 101, 110, 115, 101>>

ExpPrefix == <<101, 120, 112, 95>>

Underscore == 95

\* Math.random().toString(36).substr(2, 9): "a" or "b" stand for the nine characters
RandomSuffixes == {<<97>>, <<98>>}

\* `exp_${Date.now()}_${Math.random().toString(36).substr(2, 9)}`
ExpenseId(time, random) == ExpPrefix \o NumToStr(time) \o <<Underscore>> \o random

\* the ids a request addresses
RouteIds == {ExpenseId(t, r) : t \in 1..MaxClock, r \in RandomSuffixes}

\* !amount for a number that may be missing
FalsyNumber(o) == ~IsDefined(o) \/ IsNaN(o) \/ Val(o) = 0

\* POST /api/expenses
POST(file, body, id, createdAt) ==
  IF ~Truthy(body.userId) \/ ~Truthy(body.date) \/ FalsyNumber(body.amount) \/ ~Truthy(body.category)
  THEN [file |-> file, status |-> 400, body |-> <<>>]
  ELSE LET safeDescription ==
             IF Truthy(body.description) THEN ReplaceCommas(Val(body.description)) ELSE <<>>
           newLine ==
             <<id, Val(body.userId), Val(body.date), NumberText(Val(body.amount)),
               Val(body.category), safeDescription,
               IF Truthy(body.type) THEN Val(body.type) ELSE TypeExpense, createdAt>>
       IN  [file |-> IF file = NoFile THEN <<newLine>> ELSE Append(file, newLine),
            status |-> 201,
            body |-> newLine]

\* lines.filter((line, index) => index === 0 || line.split(",")[0] !== id)
LinesWithout(lines, id) ==
  <<lines[1]>> \o SelectSeq(Tail(lines), LAMBDA line : line[1] # id)

\* DELETE /api/expenses/[id]
DELETE(file, id) ==
  IF file = NoFile
  THEN [file |-> file, status |-> 404, body |-> <<>>]
  ELSE IF Len(LinesWithout(file, id)) = Len(file)
  THEN [file |-> file, status |-> 404, body |-> <<>>]
  ELSE [file |-> LinesWithout(file, id), status |-> 200, body |-> <<>>]

\* the loop of PUT over the lines behind the first: the index of the first line
\* whose first part is id, 0 when there is none (-1 in the source)
FoundIndex(lines, id) ==
  IF \E i \in 2..Len(lines) : lines[i][1] = id
  THEN CHOOSE i \in 2..Len(lines) : lines[i][1] = id /\ \A j \in 2..(i - 1) : lines[j][1] # id
  ELSE 0

\* headers.forEach((header, hIndex) => currentExpense[header.trim()] = parts[hIndex])
CurrentExpense(headers, parts) ==
  LET acc[n \in 0..Len(headers)] ==
        IF n = 0 THEN <<>>
        ELSE ObjSet(acc[n - 1], Trim(headers[n]), IF n <= Len(parts) THEN parts[n] ELSE <<>>)
  IN  acc[Len(headers)]

\* { ...currentExpense, ...updates }
Spread(obj, updates) ==
  LET acc[n \in 0..Len(updates)] ==
        IF n = 0 THEN obj ELSE ObjSet(acc[n - 1], updates[n][1], updates[n][2])
  IN  acc[Len(updates)]

\* headers.map(header => updatedExpense[header.trim()]), as join(",") writes it
NewLineParts(headers, updatedExpense) ==
  [h \in 1..Len(headers) |-> PartOrEmpty(updatedExpense, Trim(headers[h]))]

\* PUT /api/expenses/[id]: fs.readFileSync throws when the file is missing
PUT(file, id, updates) ==
  IF file = NoFile
  THEN [file |-> file, status |-> 500, body |-> <<>>]
  ELSE IF FoundIndex(file, id) = 0
  THEN [file |-> file, status |-> 404, body |-> <<>>]
  ELSE [file |-> [file EXCEPT ![FoundIndex(file, id)] =
                    NewLineParts(file[1], Spread(CurrentExpense(file[1], @), updates))],
        status |-> 200,
        body |-> Spread(CurrentExpense(file[1], file[FoundIndex(file, id)]), updates)]

\* the JSON bodies POST is sent
NoBody ==
  [userId |-> Undefined, date |-> Undefined, amount |-> Undefined, category |-> Undefined,
   description |-> Undefined, type |-> Undefined]

PostBodies ==
  {[NoBody EXCEPT !.userId = Some(UserOne), !.date = Some(Feb01), !.amount = Some(100),
                  !.category = Some(Rent), !.description = Some(DescFlat)],
   [NoBody EXCEPT !.userId = Some(UserOne), !.date = Some(Feb02), !.amount = Some(-50),
                  !.category = Some(Dining)],
   [NoBody EXCEPT !.userId = Some(UserOne), !.date = Some(Feb01), !.amount = Some(0),
                  !.category = Some(Rent)],
   [NoBody EXCEPT !.userId = Some(UserOne), !.date = Some(Feb01), !.amount = Some(100)]}

\* the JSON bodies PUT is sent: {}, {amount: 50}, {date: "2026-02-02"}, {id: "exp_1_a"}
PutBodies ==
  {<<>>,
   <<<<ColAmount, NumberText(50)>>>>,
   <<<<ColDate, Feb02>>>>,
   <<<<ColId, ExpenseId(1, <<97>>)>>>>}

\* the response of a route, as the value the call returns
Response(r) == [status |-> r.status, body |-> r.body]

PostExpenses ==
  /\ call = Idle
  /\ expensesFile = NoFile \/ Len(expensesFile) < MaxFileLines
  /\ \E body \in PostBodies, random \in RandomSuffixes :
       LET r == POST(expensesFile, body, ExpenseId(now, random), NumToStr(now))
       IN  /\ call' = [op |-> "POST", body |-> body, before |-> expensesFile]
           /\ expensesFile' = r.file
           /\ result' = Response(r)
  /\ UNCHANGED <<expenses, incomeData, now, usersFile>>

DeleteExpenseById ==
  /\ call = Idle
  /\ \E id \in RouteIds :
       LET r == DELETE(expensesFile, id)
       IN  /\ call' = [op |-> "DELETE", id |-> id, before |-> expensesFile]
           /\ expensesFile' = r.file
           /\ result' = Response(r)
  /\ UNCHANGED <<expenses, incomeData, now, usersFile>>

PutExpenseById ==
  /\ call = Idle
  /\ \E id \in RouteIds, updates \in PutBodies :
       LET r == PUT(expensesFile, id, updates)
       IN  /\ call' = [op |-> "PUT", id |-> id, updates |-> updates, before |-> expensesFile]
           /\ expensesFile' = r.file
           /\ result' = Response(r)
  /\ UNCHANGED <<expenses, incomeData, now, usersFile>>

(***************************************************************************)
(* services/expense-data.ts (API-backed store): deleteExpenses sends one   *)
(* DELETE per id at once and counts the responses that are OK.             *)
(***************************************************************************)
\* the id arrays deleteExpenses is called with
ApiIdLists ==
  {<<ExpenseId(1, <<97>>)>>,
   <<ExpenseId(1, <<97>>), ExpenseId(2, <<97>>)>>,
   <<ExpenseId(2, <<98>>), ExpenseId(1, <<97>>)>>,
   <<ExpenseId(1, <<97>>), ExpenseId(1, <<97>>)>>}

\* ids.map(id => deleteExpense(id)): every request is under way
BeginDeleteExpenses ==
  /\ call = Idle
  /\ \E ids \in ApiIdLists :
       call' = [op |-> "suspended", of |-> "api.deleteExpenses", ids |-> ids,
                pending |-> 1..Len(ids), succeeded |-> {}, before |-> expensesFile]
  /\ result' = Null
  /\ UNCHANGED <<expenses, incomeData, now, files>>

\* the route serves one of the requests under way; deleteExpense returns response.ok
ServeDelete ==
  /\ call.op = "suspended"
  /\ call.of = "api.deleteExpenses"
  /\ \E k \in call.pending :
       LET r == DELETE(expensesFile, call.ids[k])
       IN  /\ expensesFile' = r.file
           /\ call' = [call EXCEPT !.pending = @ \ {k},
                                   !.succeeded = IF r.status = 200 THEN @ \cup {k} ELSE @]
  /\ UNCHANGED <<expenses, incomeData, now, result, usersFile>>

\* await Promise.all(...); return results.filter(success => success).length
EndDeleteExpenses ==
  /\ call.op = "suspended"
  /\ call.of = "api.deleteExpenses"
  /\ call.pending = {}
  /\ call' = [call EXCEPT !.op = "api.deleteExpenses"]
  /\ result' = Cardinality(call.succeeded)
  /\ UNCHANGED <<expenses, incomeData, now, files>>

\* the expense file as a deployment finds it: missing, or holding its header
InitRoutes ==
  /\ expenses = <<>>
  /\ incomeData = <<>>
  /\ now = 1
  /\ call = Idle
  /\ result = Null
  /\ expensesFile \in {NoFile, <<ExpensesHeader>>}
  /\ usersFile = <<UsersHeader>>

NextRoutes ==
  \/ Tick
  \/ Return
  \/ PostExpenses
  \/ DeleteExpenseById
  \/ PutExpenseById
  \/ BeginDeleteExpenses
  \/ ServeDelete
  \/ EndDeleteExpenses

\* the expense file under the requests of the three routes and deleteExpenses
SpecRoutes == InitRoutes /\ [][NextRoutes]_vars

(***************************************************************************)
(* app/api/auth/register/route.ts: POST appends a user to public/data/     *)
(* users.csv unless a row behind the first line has the email.             *)
(***************************************************************************)
\* "user_"
UserPrefix == <<117, 115, 101, 114, 95>>

\* `user_${Date.now()}`
UserId(time) == UserPrefix \o NumToStr(time)

\* lines.slice(1).some(line => line.split(",")[1]?.trim().toLowerCase() === email.toLowerCase())
EmailExists(lines, email) ==
  \E i \in 2..Len(lines) : ToLowerCase(Trim(lines[i][2])) = ToLowerCase(email)

\* POST /api/auth/register
RegisterPOST(file, body, id, createdAt) ==
  IF ~Truthy(body.email) \/ ~Truthy(body.password) \/ ~Truthy(body.name)
  THEN [file |-> file, status |-> 400, body |-> <<>>]
  ELSE LET lines == IF file = NoFile THEN <<UsersHeader>> ELSE file
           newLine == <<id, Val(body.email), Val(body.password), Val(body.name), createdAt>>
       IN  IF EmailExists(lines, Val(body.email))
           THEN [file |-> file, status |-> 409, body |-> <<>>]
           ELSE [file |-> IF file = NoFile THEN <<newLine>> ELSE Append(file, newLine),
                 status |-> 201,
                 body |-> <<id, Val(body.email), Val(body.name), createdAt>>]

\* the emails of the requests: "a", "A", " a", "b"
RegisterEmails == {<<97>>, <<65>>, <<32, 97>>, <<98>>}

\* the JSON bodies the register route is sent; any of the three fields may be missing
RegisterBodies ==
  [email : {Undefined} \cup {Some(e) : e \in RegisterEmails},
   password : {Undefined, Some(<<112>>)},
   name : {Undefined, Some(<<110>>)}]

PostRegister ==
  /\ call = Idle
  /\ usersFile = NoFile \/ Len(usersFile) < MaxFileLines
  /\ \E body \in RegisterBodies :
       LET r == RegisterPOST(usersFile, body, UserId(now), NumToStr(now))
       IN  /\ call' = [op |-> "register", body |-> body, before |-> usersFile]
           /\ usersFile' = r.file
           /\ result' = Response(r)
  /\ UNCHANGED <<expenses, incomeData, now, expensesFile>>

\* the user file as a deployment finds it: missing, or holding its header
InitRegister ==
  /\ expenses = <<>>
  /\ incomeData = <<>>
  /\ now = 1
  /\ call = Idle
  /\ result = Null
  /\ expensesFile = <<ExpensesHeader>>
  /\ usersFile \in {NoFile, <<UsersHeader>>}

NextRegister == Tick \/ Return \/ PostRegister

\* the user file under registration requests
SpecRegister == InitRegister /\ [][NextRegister]_vars

NextAnalytics == Write \/ GetBalanceSummary \/ GetSpendingTrends \/ GetMonthlyBreakdown

\* the record store with the three aggregations that report a balance
SpecAnalytics == Init /\ [][NextAnalytics]_vars

Next ==
  \/ Write
  \/ GetExpenses
  \/ GetIncome
  \/ GetExpenseSummary
  \/ GetIncomeSummary
  \/ GetBalanceSummary
  \/ GetSpendingByCategory
  \/ GetSpendingTrends
  \/ GetMonthlyBreakdown

\* every operation of the services
Spec == Init /\ [][Next]_vars

(***************************************************************************)
(* What the filters are required to select, stated on one record.          *)
(***************************************************************************)
CountIn(seq, r) == Cardinality({i \in 1..Len(seq) : seq[i] = r})

Range(seq) == {seq[i] : i \in 1..Len(seq)}

\* every field the filter carries holds of the expense e
SatisfiesExpenseFilter(e, filter) ==
  IsDefined(filter) =>
    LET f == Val(filter)
    IN  /\ IsDefined(f.startDate) => StrLe(Val(f.startDate), e.date)
        /\ IsDefined(f.endDate) => StrLe(e.date, Val(f.endDate))
        /\ IsDefined(f.category) => ToLowerCase(e.category) = ToLowerCase(Val(f.category))
        /\ IsDefined(f.minAmount) => Val(f.minAmount) <= e.amount
        /\ IsDefined(f.maxAmount) => e.amount <= Val(f.maxAmount)
        /\ IsDefined(f.searchQuery) =>
             \/ Includes(ToLowerCase(e.description), ToLowerCase(Val(f.searchQuery)))
             \/ Includes(ToLowerCase(e.category), ToLowerCase(Val(f.searchQuery)))

\* every field of an IncomeFilter the filter carries holds of the income i
SatisfiesIncomeFilter(i, filter) ==
  IsDefined(filter) =>
    LET f == Val(filter)
    IN  /\ IsDefined(f.startDate) => StrLe(Val(f.startDate), i.date)
        /\ IsDefined(f.endDate) => StrLe(i.date, Val(f.endDate))
        /\ IsDefined(f.source) => ToLowerCase(i.source) = ToLowerCase(Val(f.source))
        /\ IsDefined(f.minAmount) => Val(f.minAmount) <= i.amount
        /\ IsDefined(f.maxAmount) => i.amount <= Val(f.maxAmount)

\* C1: getExpenses(filter) and getIncome(filter) return exactly the stored
\* records that satisfy every field the filter carries (bounds inclusive), each as
\* often as the store holds it; without a filter, or a field, nothing is excluded.
C1_ExactSelection ==
  /\ call.op = "getExpenses" =>
       \A r \in Range(expenses) \cup Range(result) :
         CountIn(result, r) =
           IF SatisfiesExpenseFilter(r, call.filter) THEN CountIn(expenses, r) ELSE 0
  /\ call.op = "getIncome" =>
       \A r \in Range(incomeData) \cup Range(result) :
         CountIn(result, r) =
           IF SatisfiesIncomeFilter(r, call.filter) THEN CountIn(incomeData, r) ELSE 0

\* a date-bounded getExpenses that keeps a record dated on the bound and drops another
C1_Witness ==
  /\ call.op = "getExpenses"
  /\ IsDefined(call.filter)
  /\ IsDefined(Val(call.filter).startDate)
  /\ Len(expenses) = 2
  /\ Len(result) = 1
  /\ result[1].date = Val(Val(call.filter).startDate)

\* C2: the records returned are in descending date order, and the records of one
\* date come in the order the store holds them.
C2_DescendingStable ==
  /\ call.op = "getExpenses" =>
       /\ \A i, j \in 1..Len(result) : i < j => StrLe(result[j].date, result[i].date)
       /\ \A d \in {e.date : e \in Range(expenses)} :
            SelectSeq(result, LAMBDA e : e.date = d) =
              SelectSeq(expenses, LAMBDA e : e.date = d /\ SatisfiesExpenseFilter(e, call.filter))
  /\ call.op = "getIncome" =>
       /\ \A i, j \in 1..Len(result) : i < j => StrLe(result[j].date, result[i].date)
       /\ \A d \in {e.date : e \in Range(incomeData)} :
            SelectSeq(result, LAMBDA e : e.date = d) =
              SelectSeq(incomeData, LAMBDA e : e.date = d /\ SatisfiesIncomeFilter(e, call.filter))

\* the store holds an older record before a newer one and getExpenses returns both
C2_Witness ==
  /\ call.op = "getExpenses"
  /\ Len(expenses) = 2
  /\ StrLt(expenses[1].date, expenses[2].date)
  /\ result = <<expenses[2], expenses[1]>>

(***************************************************************************)
(* What a summary is required to be, stated on the stored records.         *)
(***************************************************************************)
\* the sum of the amounts of the records of seq that satisfy P
SumWhere(seq, P(_)) ==
  SumSeq([i \in 1..Len(seq) |-> IF P(seq[i]) THEN seq[i].amount ELSE 0])

\* obj maps exactly the keys of want, each once, key k to ValueOf(k)
IsMapping(obj, want, ValueOf(_)) ==
  /\ {obj[i][1] : i \in 1..Len(obj)} = want
  /\ Len(obj) = Cardinality(want)
  /\ \A i \in 1..Len(obj) : obj[i][2] = ValueOf(obj[i][1])

\* C3: a summary has the number of the filtered records as count, the sum of their
\* amounts as total, total/count as average (0 for no record), and maps each category
\* (source) and each 7-character month prefix present to the sum of its amounts; no
\* filtered record gives total 0, average 0, count 0 and two empty mappings.
C3_SummaryIsReference ==
  /\ call.op = "getExpenseSummary" =>
       LET In(e) == SatisfiesExpenseFilter(e, call.filter)
           kept  == SelectSeq(expenses, In)
       IN  /\ result.expenseCount = Len(kept)
           /\ result.totalExpenses = SumWhere(expenses, In)
           /\ result.averageExpense[1] * Len(kept) = result.totalExpenses * result.averageExpense[2]
           /\ Len(kept) = 0 => result.averageExpense = <<0, 1>>
           /\ IsMapping(result.byCategory, {e.category : e \in Range(kept)},
                        LAMBDA c : SumWhere(kept, LAMBDA e : e.category = c))
           /\ IsMapping(result.byMonth, {SubSeq(e.date, 1, 7) : e \in Range(kept)},
                        LAMBDA m : SumWhere(kept, LAMBDA e : SubSeq(e.date, 1, 7) = m))
           /\ Len(kept) = 0 =>
                /\ result.totalExpenses = 0
                /\ result.byCategory = <<>>
                /\ result.byMonth = <<>>
  /\ call.op = "getIncomeSummary" =>
       LET In(i) == SatisfiesIncomeFilter(i, call.filter)
           kept  == SelectSeq(incomeData, In)
       IN  /\ result.incomeCount = Len(kept)
           /\ result.totalIncome = SumWhere(incomeData, In)
           /\ result.averageIncome[1] * Len(kept) = result.totalIncome * result.averageIncome[2]
           /\ Len(kept) = 0 => result.averageIncome = <<0, 1>>
           /\ IsMapping(result.bySource, {i.source : i \in Range(kept)},
                        LAMBDA c : SumWhere(kept, LAMBDA i : i.source = c))
           /\ IsMapping(result.byMonth, {SubSeq(i.date, 1, 7) : i \in Range(kept)},
                        LAMBDA m : SumWhere(kept, LAMBDA i : SubSeq(i.date, 1, 7) = m))
           /\ Len(kept) = 0 =>
                /\ result.totalIncome = 0
                /\ result.bySource = <<>>
                /\ result.byMonth = <<>>

\* a summary of two expenses of one category dated in two months
C3_Witness ==
  /\ call.op = "getExpenseSummary"
  /\ result.expenseCount = 2
  /\ Len(result.byCategory) = 1
  /\ Len(result.byMonth) = 2

(***************************************************************************)
(* The analytics.                                                          *)
(***************************************************************************)
\* C4: balance = income - expenses at every granularity: in the balance summary,
\* in every point of the trend series and (as savings) in every month.
C4_BalanceIdentity ==
  /\ call.op = "getBalanceSummary" =>
       result.balance = result.totalIncome - result.totalExpenses
  /\ call.op = "getSpendingTrends" =>
       \A i \in 1..Len(result) : result[i].balance = result[i].income - result[i].expenses
  /\ call.op = "getMonthlyBreakdown" =>
       \A i \in 1..Len(result) : result[i].savings = result[i].income - result[i].expenses

\* a balance summary of income 100 and expenses 150
C4_Witness ==
  /\ call.op = "getBalanceSummary"
  /\ result.totalIncome = 100
  /\ result.totalExpenses = 150
  /\ result.balance = -50

\* C5: savingsRate = (totalIncome - totalExpenses) / totalIncome * 100 whenever
\* totalIncome is not 0, and savingsRate = 0 when totalIncome = 0.
C5_SavingsRate ==
  call.op = "getBalanceSummary" =>
    /\ result.totalIncome # 0 =>
         result.savingsRate[1] * result.totalIncome =
           (result.totalIncome - result.totalExpenses) * 100 * result.savingsRate[2]
    /\ result.totalIncome = 0 => result.savingsRate = <<0, 1>>

\* the sum of the percentages of a category breakdown
PercentageSum(entries) ==
  LET sum[n \in 0..Len(entries)] ==
        IF n = 0 THEN <<0, 1>> ELSE FracPlus(sum[n - 1], entries[n].percentage)
  IN  sum[Len(entries)]

\* C6: with total the sum of the filtered expenses, every percentage of
\* getSpendingByCategory(filter) is amount/total*100 and the percentages sum to 100
\* when total > 0, and every percentage is 0 when total = 0.
C6_Percentages ==
  call.op = "getSpendingByCategory" =>
    LET total == SumWhere(expenses, LAMBDA e : SatisfiesExpenseFilter(e, call.filter))
    IN  /\ total > 0 =>
             /\ \A i \in 1..Len(result) :
                  result[i].percentage[1] * total = result[i].amount * 100 * result[i].percentage[2]
             /\ PercentageSum(result) = <<100, 1>>
        /\ total = 0 => \A i \in 1..Len(result) : result[i].percentage = <<0, 1>>

\* Rent 100 and Dining 50: two thirds and one third of the total
C6_Witness ==
  /\ call.op = "getSpendingByCategory"
  /\ Len(result) = 2
  /\ result[1].percentage = <<200, 3>>
  /\ result[2].percentage = <<100, 3>>

\* C7: getSpendingByCategory(filter) has exactly one entry for each category of the
\* filtered expenses, with that category's summed amount, in non-increasing order
\* of amount.
C7_OneEntryPerCategory ==
  call.op = "getSpendingByCategory" =>
    LET kept == SelectSeq(expenses, LAMBDA e : SatisfiesExpenseFilter(e, call.filter))
    IN  /\ {result[i].category : i \in 1..Len(result)} = {e.category : e \in Range(kept)}
        /\ Len(result) = Cardinality({e.category : e \in Range(kept)})
        /\ \A i \in 1..Len(result) :
             result[i].amount = SumWhere(kept, LAMBDA e : e.category = result[i].category)
        /\ \A i, j \in 1..Len(result) : i < j => result[i].amount >= result[j].amount

\* the category met first (on the newer expense) has the smaller amount and comes last
C7_Witness ==
  /\ call.op = "getSpendingByCategory"
  /\ call.filter = Undefined
  /\ Len(expenses) = 2
  /\ StrLt(expenses[2].date, expenses[1].date)
  /\ Len(result) = 2
  /\ result[1].category = expenses[2].category
  /\ result[1].amount > result[2].amount

\* C8: getSpendingTrends(filter) has exactly one point for each date of the filtered
\* expenses or the filtered income, in strictly ascending date order, with the sums
\* of the filtered expense and income amounts of that date (0 where a side has none).
C8_TrendPoints ==
  call.op = "getSpendingTrends" =>
    LET spent  == SelectSeq(expenses, LAMBDA e : SatisfiesExpenseFilter(e, call.filter))
        earned == SelectSeq(incomeData, LAMBDA i : SatisfiesIncomeFilter(i, call.filter))
        dates  == {e.date : e \in Range(spent)} \cup {i.date : i \in Range(earned)}
    IN  /\ {result[i].date : i \in 1..Len(result)} = dates
        /\ \A i, j \in 1..Len(result) : i < j => StrLt(result[i].date, result[j].date)
        /\ \A i \in 1..Len(result) :
             /\ result[i].expenses = SumWhere(spent, LAMBDA e : e.date = result[i].date)
             /\ result[i].income = SumWhere(earned, LAMBDA e : e.date = result[i].date)

\* a date with income only before a date with expenses only
C8_Witness ==
  /\ call.op = "getSpendingTrends"
  /\ Len(result) = 2
  /\ result[1].income # 0
  /\ result[1].expenses = 0
  /\ ~(\E e \in Range(expenses) : e.date = result[1].date)
  /\ result[2].income = 0
  /\ result[2].expenses # 0

\* the months that have an expense or an income record
RecordedMonths ==
  {SubSeq(e.date, 1, 7) : e \in Range(expenses)} \cup {SubSeq(i.date, 1, 7) : i \in Range(incomeData)}

\* the count getMonthlyBreakdown was called with (6 when it was called without)
MonthsAsked == IF IsDefined(call.months) THEN Val(call.months) ELSE DefaultMonths

Min(a, b) == IF a < b THEN a ELSE b

\* C9: for a count n >= 0, getMonthlyBreakdown(n) returns, newest first, exactly the
\* min(n, M) most recent of the M months that have an expense or an income record.
C9_MostRecentMonths ==
  (call.op = "getMonthlyBreakdown" /\ MonthsAsked >= 0) =>
    LET returned == {result[i].month : i \in 1..Len(result)}
    IN  /\ Len(result) = Min(MonthsAsked, Cardinality(RecordedMonths))
        /\ \A i, j \in 1..Len(result) : i < j => StrLt(result[j].month, result[i].month)
        /\ returned \subseteq RecordedMonths
        /\ \A m \in RecordedMonths \ returned : \A r \in returned : StrLt(m, r)

\* getMonthlyBreakdown(1) over records of three months returns the newest month
C9_Witness ==
  /\ call.op = "getMonthlyBreakdown"
  /\ call.months = Some(1)
  /\ Cardinality(RecordedMonths) = 3
  /\ Len(result) = 1
  /\ \A m \in RecordedMonths : StrLe(m, result[1].month)

\* C10 as claimed: for every integer monthsToReturn, 0 and negative ones included,
\* getMonthlyBreakdown(monthsToReturn) has length <= monthsToReturn.
C10_LengthAtMostAsked ==
  call.op = "getMonthlyBreakdown" => Len(result) <= MonthsAsked

\* C10 as amended: for every monthsToReturn >= 0 the length is <= monthsToReturn; a
\* negative monthsToReturn -k drops the k oldest of the M months and leaves
\* max(0, M - k) entries.
C10_LengthAtMostNonNegative ==
  call.op = "getMonthlyBreakdown" =>
    /\ MonthsAsked >= 0 => Len(result) <= MonthsAsked
    /\ MonthsAsked < 0 =>
         Len(result) = (IF Cardinality(RecordedMonths) + MonthsAsked > 0
                        THEN Cardinality(RecordedMonths) + MonthsAsked ELSE 0)

\* getMonthlyBreakdown(2) over three months is cut to two entries
C10_Witness ==
  /\ call.op = "getMonthlyBreakdown"
  /\ call.months = Some(2)
  /\ Cardinality(RecordedMonths) = 3
  /\ Len(result) = 2

\* whether a record is dated in month m ("YYYY-MM")
InMonth(r, m) == SubSeq(r.date, 1, 7) = m

\* C11: in every entry of getMonthlyBreakdown, income is the sum of the income amounts
\* dated in that month, expenses the sum of the expense amounts dated in it, and every
\* top category is a category of an expense of that month with the sum of that month's
\* expenses of the category; a month without expenses has expenses 0 and no top
\* category.
C11_MonthlySums ==
  call.op = "getMonthlyBreakdown" =>
    \A n \in 1..Len(result) :
      LET m   == result[n].month
          top == result[n].topCategories
      IN  /\ result[n].income = SumWhere(incomeData, LAMBDA i : InMonth(i, m))
          /\ result[n].expenses = SumWhere(expenses, LAMBDA e : InMonth(e, m))
          /\ \A k \in 1..Len(top) :
               /\ \E e \in Range(expenses) : InMonth(e, m) /\ e.category = top[k].name
               /\ top[k].amount =
                    SumWhere(expenses, LAMBDA e : InMonth(e, m) /\ e.category = top[k].name)
          /\ (\A e \in Range(expenses) : ~InMonth(e, m)) =>
               result[n].expenses = 0 /\ top = <<>>

\* a month that has income and no expense is reported with expenses 0 and no top
\* category, beside a month that has both
C11_Witness ==
  /\ call.op = "getMonthlyBreakdown"
  /\ \E n \in 1..Len(result) :
       /\ result[n].income = 100
       /\ result[n].expenses = 0
       /\ result[n].topCategories = <<>>
       /\ \A e \in Range(expenses) : ~InMonth(e, result[n].month)
  /\ \E n \in 1..Len(result) :
       /\ result[n].income = 100
       /\ result[n].expenses = 150
       /\ Len(result[n].topCategories) = 2

\* the expense at store position a is met before the one at position b by the loop
\* of getMonthlyBreakdown, which runs over the expenses newest first
MetBefore(a, b) ==
  \/ StrLt(expenses[b].date, expenses[a].date)
  \/ expenses[a].date = expenses[b].date /\ a < b

\* the store positions of the expenses of month m in category c
PositionsOf(m, c) ==
  {a \in 1..Len(expenses) : InMonth(expenses[a], m) /\ expenses[a].category = c}

\* category c of month m is first met before category d
FirstMetBefore(m, c, d) ==
  \E a \in PositionsOf(m, c) : \A b \in PositionsOf(m, d) : MetBefore(a, b)

\* the sum of the expenses of month m in category c
CategorySum(m, c) == SumWhere(expenses, LAMBDA e : InMonth(e, m) /\ e.category = c)

\* C12: in every entry of getMonthlyBreakdown, topCategories has min(3, number of the
\* month's expense categories) elements, they are the categories with the highest sums
\* of the month in non-increasing order of amount, and of two categories with equal
\* sums the one whose first expense was met first comes first.
C12_TopCategories ==
  call.op = "getMonthlyBreakdown" =>
    \A n \in 1..Len(result) :
      LET m    == result[n].month
          top  == result[n].topCategories
          cats == {e.category : e \in {x \in Range(expenses) : InMonth(x, m)}}
          name == {top[k].name : k \in 1..Len(top)}
      IN  /\ Len(top) = Min(TopCategories, Cardinality(cats))
          /\ Cardinality(name) = Len(top)
          /\ name \subseteq cats
          /\ \A k \in 1..Len(top) : top[k].amount = CategorySum(m, top[k].name)
          /\ \A j, k \in 1..Len(top) : j < k => top[j].amount >= top[k].amount
          /\ \A c \in cats \ name : \A k \in 1..Len(top) :
               /\ CategorySum(m, c) <= top[k].amount
               /\ CategorySum(m, c) = top[k].amount => FirstMetBefore(m, top[k].name, c)
          /\ \A j, k \in 1..Len(top) :
               (j < k /\ top[j].amount = top[k].amount) =>
                 FirstMetBefore(m, top[j].name, top[k].name)

\* C13: filtering is idempotent: the filter chain and sort of getExpenses (getIncome),
\* applied with the same filter to the sequence the call returned, give that sequence
\* again, element for element.
C13_FilterIdempotent ==
  /\ call.op = "getExpenses" =>
       ArraySort("ByDateDescending", FilterExpenses(result, call.filter)) = result
  /\ call.op = "getIncome" =>
       ArraySort("ByDateDescending", FilterIncome(result, call.filter)) = result

\* a filter that kept two expenses of one day, in store order, and dropped none
C13_Witness ==
  /\ call.op = "getExpenses"
  /\ call.filter = Some([EmptyFilter EXCEPT !.startDate = Some(Feb01)])
  /\ Len(result) = 2
  /\ result[1].date = result[2].date
  /\ result[1] # result[2]

\* the records of seq at the positions in S, in the order of seq
Pick(seq, S) ==
  LET take[n \in 0..Len(seq)] ==
        IF n = 0 THEN <<>>
        ELSE IF n \in S THEN Append(take[n - 1], seq[n]) ELSE take[n - 1]
  IN  take[Len(seq)]

\* C14: summary totals and counts are additive: however the records a summary is taken
\* of are split into two disjoint parts, the totals of the summaries of the parts add up
\* to the total of the summary of the whole, and so do the counts.
C14_SummaryAdditive ==
  /\ call.op = "getExpenseSummary" =>
       LET whole == SelectSeq(expenses, LAMBDA e : SatisfiesExpenseFilter(e, call.filter))
           all   == 1..Len(whole)
       IN  \A S \in SUBSET all :
             /\ SummarizeExpenses(Pick(whole, S)).totalExpenses
                  + SummarizeExpenses(Pick(whole, all \ S)).totalExpenses
                  = result.totalExpenses
             /\ SummarizeExpenses(Pick(whole, S)).expenseCount
                  + SummarizeExpenses(Pick(whole, all \ S)).expenseCount
                  = result.expenseCount
  /\ call.op = "getIncomeSummary" =>
       LET whole == SelectSeq(incomeData, LAMBDA i : SatisfiesIncomeFilter(i, call.filter))
           all   == 1..Len(whole)
       IN  \A S \in SUBSET all :
             /\ SummarizeIncome(Pick(whole, S)).totalIncome
                  + SummarizeIncome(Pick(whole, all \ S)).totalIncome
                  = result.totalIncome
             /\ SummarizeIncome(Pick(whole, S)).incomeCount
                  + SummarizeIncome(Pick(whole, all \ S)).incomeCount
                  = result.incomeCount

\* a summary of two expenses of different amounts, which splits into one and one
C14_Witness ==
  /\ call.op = "getExpenseSummary"
  /\ result.expenseCount = 2
  /\ result.totalExpenses = 150
  /\ SummarizeExpenses(Pick(expenses, {1})).totalExpenses
       # SummarizeExpenses(Pick(expenses, {2})).totalExpenses

\* two code units are the same letter in either case, or the same unit
SameLetter(c, d) ==
  \/ c = d
  \/ c >= 65 /\ c <= 90 /\ d = c + 32
  \/ d >= 65 /\ d <= 90 /\ c = d + 32

\* two strings are equal when letter case is ignored
EqualIgnoringCase(a, b) ==
  Len(a) = Len(b) /\ \A k \in 1..Len(a) : SameLetter(a[k], b[k])

\* C15: called with a category (source) alone, getExpenses (getIncome) returns exactly
\* the records whose category (source) is the filter value when letter case is ignored:
\* the whole string, not a part of it.
C15_WholeNameIgnoringCase ==
  /\ (call.op = "getExpenses" /\ call.filter \in CategoryFilters) =>
       \A e \in Range(expenses) :
         CountIn(result, e) =
           (IF EqualIgnoringCase(e.category, Val(Val(call.filter).category))
            THEN CountIn(expenses, e) ELSE 0)
  /\ (call.op = "getIncome" /\ call.filter \in SourceFilters) =>
       \A i \in Range(incomeData) :
         CountIn(result, i) =
           (IF EqualIgnoringCase(i.source, Val(Val(call.filter).source))
            THEN CountIn(incomeData, i) ELSE 0)

\* getExpenses({category: "rent"}) returns the expense of category "Rent" and not the
\* one of category "Dining"; getExpenses({category: "ren"}) would return neither
C15_Witness ==
  /\ call.op = "getExpenses"
  /\ call.filter = Some([EmptyFilter EXCEPT !.category = Some(QueryRent)])
  /\ Len(expenses) = 2
  /\ Len(result) = 1
  /\ result[1].category = Rent

\* the string a description is taken as: the empty string when it is missing
DescriptionOrEmpty(e) == IF e.description = Missing THEN <<>> ELSE e.description

\* C16: getExpenses with a searchQuery never throws when a stored expense has no
\* description: it returns, and it keeps such an expense exactly when the expense
\* satisfies the filter with the empty string for its description, which for a
\* searchQuery alone is when its category contains the query, letter case ignored.
C16_MissingDescriptionIsEmpty ==
  (call.op = "getExpenses" /\ call.filter \in SearchFilters) =>
    /\ result # TypeError
    /\ \A e \in Range(expenses) :
         CountIn(result, e) =
           (IF SatisfiesExpenseFilter([e EXCEPT !.description = DescriptionOrEmpty(e)],
                                      call.filter)
            THEN CountIn(expenses, e) ELSE 0)

\* C17: a searchQuery applies to income as it does to expenses: getIncome called with
\* a filter that carries searchQuery q returns only income records whose description
\* or source contains q, letter case ignored.
C17_SearchAppliesToIncome ==
  (call.op = "getIncome" /\ call.filter \in IncomeSearchFilters) =>
    \A k \in 1..Len(result) :
      LET q == ToLowerCase(Val(Val(call.filter).searchQuery))
      IN  \/ Includes(ToLowerCase(result[k].description), q)
          \/ Includes(ToLowerCase(result[k].source), q)

\* C18: a malformed optional filter field (an empty-string date bound, category or
\* source, a null or NaN amount bound) is no error and no constraint: getExpenses and
\* getIncome return what they return without the field, every stored record.
C18_MalformedFieldIsNoConstraint ==
  /\ (call.op = "getExpenses" /\ call.filter \in MalformedExpenseFilters) =>
       /\ result # TypeError
       /\ Len(result) = Len(expenses)
       /\ \A e \in Range(expenses) : CountIn(result, e) = CountIn(expenses, e)
  /\ (call.op = "getIncome" /\ call.filter \in MalformedIncomeFilters) =>
       /\ Len(result) = Len(incomeData)
       /\ \A i \in Range(incomeData) : CountIn(result, i) = CountIn(incomeData, i)

(***************************************************************************)
(* C19: a read (getExpenses, getIncome, getExpenseSummary, getIncomeSummary,*)
(* getRecentExpenses, getRecentIncome, getExpensesByDate or an analytics   *)
(* function) leaves the expense store and the income store with the same   *)
(* records in the same order as before the call.                           *)
(***************************************************************************)
ReadOps ==
  {"getExpenses", "getIncome", "getExpenseSummary", "getIncomeSummary",
   "getRecentExpenses", "getRecentIncome", "getExpensesByDate", "getBalanceSummary",
   "getSpendingByCategory", "getSpendingTrends", "getMonthlyBreakdown", "getDailySpending"}

\* C19: every step that is a read keeps both stores, records and order.
C19_ReadsLeaveStores ==
  [][(call = Idle /\ call'.op \in ReadOps) => (expenses' = expenses /\ incomeData' = incomeData)]_vars

\* getRecentExpenses has returned the two stored expenses newest first while the
\* store still holds them oldest first
C19_Witness ==
  /\ call.op = "getRecentExpenses"
  /\ Len(expenses) = 2
  /\ expenses[1] # expenses[2]
  /\ result = <<expenses[2], expenses[1]>>

(***************************************************************************)
(* C20: getBalanceSummary(expenseFilter, incomeFilter) filters the two     *)
(* sides independently.                                                    *)
(***************************************************************************)
\* the filters the calls of getBalanceSummary carry first, and second
BalanceExpenseFilters == {filters[1] : filters \in BalanceFilters}

BalanceIncomeFilters == {filters[2] : filters \in BalanceFilters}

\* C20: totalExpenses is the total of the expenses that satisfy expenseFilter and is
\* the same under every other incomeFilter; totalIncome is the total of the income
\* that satisfies incomeFilter and is the same under every other expenseFilter; a
\* call with a date range as its only argument totals all income.
C20_SidesFilteredIndependently ==
  call.op = "getBalanceSummary" =>
    /\ result.totalExpenses =
         SumWhere(expenses, LAMBDA e : SatisfiesExpenseFilter(e, call.expenseFilter))
    /\ result.totalIncome =
         SumWhere(incomeData, LAMBDA i : SatisfiesIncomeFilter(i, call.incomeFilter))
    /\ \A other \in BalanceIncomeFilters :
         getBalanceSummary(call.expenseFilter, other).totalExpenses = result.totalExpenses
    /\ \A other \in BalanceExpenseFilters :
         getBalanceSummary(other, call.incomeFilter).totalIncome = result.totalIncome
    /\ call.incomeFilter = Undefined =>
         result.totalIncome = SumSeq([i \in 1..Len(incomeData) |-> incomeData[i].amount])

\* a call with a start date as its only argument, over an income store whose first
\* record lies before that date and whose second does not: both are in totalIncome
C20_Witness ==
  /\ call.op = "getBalanceSummary"
  /\ call.incomeFilter = Undefined
  /\ IsDefined(call.expenseFilter)
  /\ IsDefined(Val(call.expenseFilter).startDate)
  /\ Len(incomeData) = 2
  /\ StrLt(incomeData[1].date, Val(Val(call.expenseFilter).startDate))
  /\ StrLe(Val(Val(call.expenseFilter).startDate), incomeData[2].date)
  /\ incomeData[1].amount > 0
  /\ result.totalIncome = incomeData[1].amount + incomeData[2].amount

(***************************************************************************)
(* C21: scenario A, expenses Rent 100 and Dining 50 on one date.           *)
(***************************************************************************)
\* the store holds exactly an expense Rent 100 and an expense Dining 50 of one date
ScenarioA ==
  /\ Len(expenses) = 2
  /\ \E i, j \in 1..2 :
       /\ expenses[i].category = Rent /\ expenses[i].amount = 100
       /\ expenses[j].category = Dining /\ expenses[j].amount = 50
       /\ expenses[i].date = expenses[j].date

\* C21: in scenario A getSpendingByCategory() returns Rent first with amount 100 and
\* percentage 66.67 and Dining second with amount 50 and percentage 33.33.
C21_PercentagesRounded ==
  (call.op = "getSpendingByCategory" /\ call.filter = Undefined /\ ScenarioA) =>
    /\ Len(result) = 2
    /\ result[1].category = Rent /\ result[1].amount = 100
    /\ result[1].percentage = Frac(6667, 100)
    /\ result[2].category = Dining /\ result[2].amount = 50
    /\ result[2].percentage = Frac(3333, 100)

(***************************************************************************)
(* C22: an aggregation is computed from one snapshot of the two stores.    *)
(***************************************************************************)
\* what the aggregation of the call c returns when it reads both stores in store
AggregateFrom(c, store) ==
  LET spent  == ArraySort("ByDateDescending", FilterExpenses(store[1], c.expenseFilter))
      earned == ArraySort("ByDateDescending", FilterIncome(store[2], c.incomeFilter))
  IN  CASE c.op = "getBalanceSummary" ->
             BalanceOf(SummarizeIncome(earned).totalIncome, SummarizeExpenses(spent).totalExpenses)
        [] c.op = "getSpendingTrends" -> TrendsOf(spent, earned)
        [] c.op = "getMonthlyBreakdown" -> BreakdownByMonth(spent, earned, MonthsOrDefault(c.months))

\* C22: the result of getBalanceSummary, getSpendingTrends or getMonthlyBreakdown is
\* what the call computes from one content that the expense store and the income
\* store had together while the call was under way, whatever calls ran meanwhile.
C22_OneSnapshot ==
  call.op \in {"getBalanceSummary", "getSpendingTrends", "getMonthlyBreakdown"} =>
    \E store \in call.stores : result = AggregateFrom(call, store)

(***************************************************************************)
(* C23: an unavailable record store reads as no expense records.           *)
(***************************************************************************)
\* C23: without a session, with a response that is not OK or with a fetch that throws,
\* the API-backed getExpenses returns the empty sequence, getExpenseSummary zero
\* totals and empty mappings, getSpendingByCategory no entry, and getBalanceSummary
\* totalExpenses 0 with the balance and the savings rate of the income alone.
C23_UnavailableStoreIsEmpty ==
  ("outcome" \in DOMAIN call /\ call.outcome # "ok") =>
    /\ call.op = "api.getExpenses" => result = <<>>
    /\ call.op = "api.getExpenseSummary" =>
         result = [totalExpenses |-> 0, averageExpense |-> Zero, expenseCount |-> 0,
                   byCategory |-> <<>>, byMonth |-> <<>>]
    /\ call.op = "api.getSpendingByCategory" => result = <<>>
    /\ call.op = "api.getBalanceSummary" =>
         LET income == SumWhere(incomeData, LAMBDA i : SatisfiesIncomeFilter(i, call.incomeFilter))
         IN  /\ result.totalExpenses = 0
             /\ result.totalIncome = income
             /\ result.balance = income
             /\ result.savingsRate = IF income > 0 THEN Frac(100, 1) ELSE Zero

\* getBalanceSummary answered from a response that is not OK while the rows hold an
\* expense and the income store a positive income: totalExpenses is 0
C23_Witness ==
  /\ call.op = "api.getBalanceSummary"
  /\ call.outcome = "notOk"
  /\ call.expenseFilter = Undefined
  /\ Len(expenses) > 0
  /\ TotalAmount(expenses) > 0
  /\ result.totalExpenses = 0
  /\ result.totalIncome > 0

(***************************************************************************)
(* C24 and C26: what every stored record is required to satisfy.           *)
(***************************************************************************)
\* C24: no two stored expenses share an id and no two stored income records share
\* an id, whatever adds, updates and deletes came before.
C24_IdsUnique ==
  /\ \A i, j \in 1..Len(expenses) : expenses[i].id = expenses[j].id => i = j
  /\ \A i, j \in 1..Len(incomeData) : incomeData[i].id = incomeData[j].id => i = j

\* C26: every stored expense and every stored income record has an amount > 0.
C26_AmountsPositive ==
  /\ \A i \in 1..Len(expenses) : expenses[i].amount > 0
  /\ \A i \in 1..Len(incomeData) : incomeData[i].amount > 0

(***************************************************************************)
(* C25, C27 and C28: updates and deletes, in memory and through the routes.*)
(***************************************************************************)
\* the lines of an expense file that are records
Records(file) ==
  IF file = NoFile THEN <<>> ELSE SelectSeq(file, LAMBDA line : line # ExpensesHeader)

\* the columns an update may change
MutableColumns == {ColAmount, ColDate, ColCategory, ColDescription}

\* C25: an updated record keeps its id: updateExpense and updateIncome return a
\* record with the id they were called with, and after a PUT answered 200 the line
\* that had the id still has it, differs from before in no column other than
\* amount, date, category and description, and every other line is as before.
C25_IdNeverChanges ==
  /\ (call.op \in {"updateExpense", "updateIncome"} /\ result # Null) =>
       Val(result).id = call.id
  /\ (call.op = "PUT" /\ result.status = 200) =>
       LET i == FoundIndex(call.before, call.id)
       IN  /\ Len(expensesFile) = Len(call.before)
           /\ expensesFile[i][1] = call.id
           /\ \A h \in 1..Len(ExpensesHeader) :
                ExpensesHeader[h] \notin MutableColumns => expensesFile[i][h] = call.before[i][h]
           /\ \A k \in 1..Len(expensesFile) : k # i => expensesFile[k] = call.before[k]

\* no record of the file has the id
AbsentFromFile(file, id) == \A k \in 1..Len(Records(file)) : Records(file)[k][1] # id

\* C27: an update or a delete of an id that no stored record has returns null
\* (update) or false (delete) in memory and is answered 404 by PUT and DELETE, and
\* the stores and the file are as before the call.
C27_AbsentIdChangesNothing ==
  [][call = Idle =>
       /\ (call'.op \in {"updateExpense", "deleteExpense"} /\ FindIndex(expenses, call'.id) = 0) =>
            /\ result' = (IF call'.op = "updateExpense" THEN Null ELSE FALSE)
            /\ expenses' = expenses
       /\ (call'.op \in {"updateIncome", "deleteIncome"} /\ FindIndex(incomeData, call'.id) = 0) =>
            /\ result' = (IF call'.op = "updateIncome" THEN Null ELSE FALSE)
            /\ incomeData' = incomeData
       /\ (call'.op \in {"PUT", "DELETE"} /\ AbsentFromFile(expensesFile, call'.id)) =>
            /\ result'.status = 404
            /\ expensesFile' = expensesFile]_vars

\* C28: when deleteExpenses(ids) of the API-backed store has completed, in whatever
\* order its DELETE requests were served, the records of the file are those it held
\* before whose id is not in ids, unchanged and in their order, and the number
\* returned is the number of records removed.
C28_ParallelDeletes ==
  call.op = "api.deleteExpenses" =>
    LET kept == SelectSeq(Records(call.before), LAMBDA line : line[1] \notin Range(call.ids))
    IN  /\ Records(expensesFile) = kept
        /\ result = Len(Records(call.before)) - Len(kept)

\* the rows of the user file: its lines other than the header
UserRows(file) ==
  IF file = NoFile THEN <<>> ELSE SelectSeq(file, LAMBDA line : line # UsersHeader)

\* some row has the email, compared without regard to case
Registered(rows, email) ==
  \E i \in 1..Len(rows) : ToLowerCase(rows[i][2]) = ToLowerCase(email)

\* C29: no two rows of the user file have the same email compared without regard
\* to case; a registration whose email a row already has is answered 409, one
\* that lacks email, password or name is answered 400, both answers leave the file
\* as it was, and an accepted registration (201) appends exactly one row.
C29_EmailsUnique ==
  /\ \A i, j \in 1..Len(UserRows(usersFile)) :
       i # j => ToLowerCase(UserRows(usersFile)[i][2]) # ToLowerCase(UserRows(usersFile)[j][2])
  /\ call.op = "register" =>
       LET body == call.body
           rows == UserRows(call.before)
       IN  /\ IF ~Truthy(body.email) \/ ~Truthy(body.password) \/ ~Truthy(body.name)
               THEN result.status = 400
               ELSE Registered(rows, Val(body.email)) => result.status = 409
           /\ result.status \in {400, 409} => usersFile = call.before
           /\ result.status = 201 =>
                /\ Len(UserRows(usersFile)) = Len(rows) + 1
                /\ SubSeq(UserRows(usersFile), 1, Len(rows)) = rows

\* byMonth[m], 0 when the month is absent
MonthTotal(byMonth, m) == IF HasKey(byMonth, m) THEN ObjGet(byMonth, m) ELSE 0

RECURSIVE ExpensesOfEntries(_, _)
\* the sum of the expenses of the first n entries
ExpensesOfEntries(entries, n) ==
  IF n = 0 THEN 0 ELSE ExpensesOfEntries(entries, n - 1) + entries[n].expenses

\* C30: every entry of getMonthlyBreakdown(n) has the expenses and the income that
\* byMonth of the unfiltered getExpenseSummary() and getIncomeSummary() give for its
\* month (0 where the month is absent there); when n is at least the number of
\* months with a record, every such month has its entry and the entries' expenses
\* sum to getExpenseSummary().totalExpenses.
C30_BreakdownAgreesWithSummaries ==
  call.op = "getMonthlyBreakdown" =>
    LET spent == getExpenseSummary(Undefined)
        earned == getIncomeSummary(Undefined)
    IN  /\ \A k \in 1..Len(result) :
             /\ result[k].month \in RecordedMonths
             /\ result[k].expenses = MonthTotal(spent.byMonth, result[k].month)
             /\ result[k].income = MonthTotal(earned.byMonth, result[k].month)
        /\ MonthsOrDefault(call.months) >= Cardinality(RecordedMonths) =>
             /\ \A m \in RecordedMonths : \E k \in 1..Len(result) : result[k].month = m
             /\ ExpensesOfEntries(result, Len(result)) = spent.totalExpenses

\* a breakdown of two months, one with two expenses and one with income alone
C30_Witness ==
  /\ call.op = "getMonthlyBreakdown"
  /\ MonthsOrDefault(call.months) >= Cardinality(RecordedMonths)
  /\ Len(result) = 2
  /\ \E k \in 1..2 : result[k].expenses = 0 /\ result[k].income > 0
  /\ \E i, j \in 1..Len(expenses) : i # j /\ MonthOf(expenses[i].date) = MonthOf(expenses[j].date)

====
